---------------------------- MODULE Spec2Model ----------------------------
(***************************************************************************)
(* Tracking-cycle orchestrator of the gaming-industry tracker.             *)
(*                                                                         *)
(* The model follows CompanyTracker.runTrackingCycle and the collaborators  *)
(* it drives: HiringTracker.trackCompany, OnboardingTracker                 *)
(* .trackNewOnboarding, JobPostingTracker.trackCompany, the Google Sheets   *)
(* store (getExistingHires/getExistingJobs/addHire/addJob), DataEnhancer    *)
(* and the Slack / e-mail notifiers.  Every await of the JavaScript code is *)
(* a suspension point: an invocation rests at a pc value and one action     *)
(* runs the code from the resumption of that await to the next await.       *)
(*                                                                         *)
(* Text is modelled as sequences of one-character strings so that           *)
(* toLowerCase, trim and the "-" concatenation of the dedup keys are        *)
(* computed, not assumed.                                                   *)
(***************************************************************************)
EXTENDS Integers, Sequences, FiniteSets, TLC

(***************************************************************************)
(* Bounds of the model.                                                     *)
(***************************************************************************)
\* invocations of runTrackingCycle that may be pending at the same time
MaxInvocations == 2
\* tracking cycles admitted (guard acquired) in one behaviour
MaxCycles == 2
\* records returned by all fetch adapters together in one behaviour
MaxRecords == 2
\* collaborator failures (adapter, store, notifier) in one behaviour
MaxFaults == 1
\* records one fetch adapter call returns
MaxBatch == 2
\* longest list handed to a duplicate filter on its own
MaxProbeLen == 3
\* calls of loadCompanies that replace the list in one behaviour
MaxReloads == 1
\* distinct errors an operation handed to withRetry may throw
MaxErrors == 4
\* calls of withCircuitBreaker that may be pending at once, and the failures a
\* circuit may count
MaxPending == 2
MaxFailures == 6
\* advances of the clock in one behaviour
MaxTicks == 3
\* requests RateLimiter grants in one behaviour, and calls of waitForSlot or
\* execute that may be pending at once
MaxGrants == 3
\* calls of runHistoricalTracking in one behaviour
MaxHistorical == 1
\* calls of CompanyTracker.start in one behaviour
MaxStarts == 2
\* calls of HiringTracker.searchNewHires in one behaviour
MaxSearches == 3
\* calls of AlertService.sendAlert in one behaviour
MaxAlerts == 3
\* steps of the clock while alerts are raised
MaxAlertTicks == 2
MaxWaiting == 1

Procs == 1..MaxInvocations

(***************************************************************************)
(* Text.                                                                    *)
(***************************************************************************)
UpperChars == <<"A", "B", "C", "D", "E", "F", "G", "H", "I", "J", "K", "L", "M", "N", "O", "P", "Q", "R", "S", "T", "U", "V", "W", "X", "Y", "Z">>
LowerChars == <<"a", "b", "c", "d", "e", "f", "g", "h", "i", "j", "k", "l", "m", "n", "o", "p", "q", "r", "s", "t", "u", "v", "w", "x", "y", "z">>

sDash == <<"-">>
sAnn == <<"A", "n", "n">>
sANN == <<"A", "N", "N">>
sBo == <<"B", "o">>
sDev == <<"D", "e", "v">>
sDEV == <<"D", "E", "V">>
sEng == <<"E", "n", "g">>
sENG == <<"E", "N", "G">>
sRemote == <<"R", "e", "m", "o", "t", "e">>
sREMOTE == <<"R", "E", "M", "O", "T", "E">>
sOslo == <<"O", "s", "l", "o">>
sOSLO == <<"O", "S", "L", "O">>
sremote == <<"r", "e", "m", "o", "t", "e">>
swfh == <<"w", "f", "h">>
shybrid == <<"h", "y", "b", "r", "i", "d">>
sonsite == <<"o", "n", "s", "i", "t", "e">>
sRemoteWork == <<"R", "e", "m", "o", "t", "e", " ", "W", "o", "r", "k">>
sWorkFromHome == <<"W", "o", "r", "k", " ", "F", "r", "o", "m", " ", "H", "o", "m", "e">>
sHybridWorkModel == <<"H", "y", "b", "r", "i", "d", " ", "W", "o", "r", "k", " ", "M", "o", "d", "e", "l">>
sOnsiteWork == <<"O", "n", "-", "s", "i", "t", "e", " ", "W", "o", "r", "k">>
sLocationNotSpecified == <<"L", "o", "c", "a", "t", "i", "o", "n", " ", "n", "o", "t", " ", "s", "p", "e", "c", "i", "f", "i", "e", "d", " ", "i", "n", " ", "p", "r", "o", "f", "i", "l", "e">>
sHigh == <<"H", "i", "g", "h">>
sHIGH == <<"H", "I", "G", "H">>
sMedium == <<"M", "e", "d", "i", "u", "m">>
sLow == <<"L", "o", "w">>
sTop == <<"T", "o", "p">>
shigh == <<"h", "i", "g", "h">>
smedium == <<"m", "e", "d", "i", "u", "m">>
slow == <<"l", "o", "w">>

\* String.prototype.toLowerCase, one character
LowerChar(c) ==
    IF \E k \in 1..Len(UpperChars) : UpperChars[k] = c
    THEN LowerChars[CHOOSE k \in 1..Len(UpperChars) : UpperChars[k] = c]
    ELSE c

\* String.prototype.toLowerCase
toLowerCase(s) == [k \in 1..Len(s) |-> LowerChar(s[k])]

RECURSIVE TrimLeft(_)
TrimLeft(s) == IF s # <<>> /\ Head(s) = " " THEN TrimLeft(Tail(s)) ELSE s

RECURSIVE TrimRight(_)
TrimRight(s) ==
    IF s # <<>> /\ s[Len(s)] = " " THEN TrimRight(SubSeq(s, 1, Len(s) - 1)) ELSE s

\* String.prototype.trim
trim(s) == TrimRight(TrimLeft(s))

\* the elements of a sequence
Range(s) == {s[k] : k \in 1..Len(s)}

(***************************************************************************)
(* Deduplicator.                                                            *)
(***************************************************************************)
\* key of a hire: `${hire.name}-${hire.title}`.toLowerCase()
HireKey(hire) == toLowerCase(hire.name \o sDash \o hire.title)

\* key of a job: `${job.title}-${job.location}`.toLowerCase()
JobKey(job) == toLowerCase(job.title \o sDash \o job.location)

\* a key of a new hire that keeps the letter casing
NewHireKey_CaseSensitive(hire) == hire.name \o sDash \o hire.title

\* key of a new hire as filterDuplicateHires computes it
NewHireKey(hire) == HireKey(hire)

\* key of a new job as filterDuplicateJobs computes it
NewJobKey(job) == JobKey(job)

filterDuplicateHires(newHires, existingHires) ==
    LET existingSet == {HireKey(existingHires[k]) : k \in 1..Len(existingHires)}
        Keep(hire) == NewHireKey(hire) \notin existingSet
    IN  SelectSeq(newHires, Keep)

\* a filter that also drops the new jobs that share their key with another
\* new job
filterDuplicateJobs_DropsTies(newJobs, existingJobs) ==
    LET existingSet == {JobKey(existingJobs[k]) : k \in 1..Len(existingJobs)}
        Twins(job) == {k \in 1..Len(newJobs) : NewJobKey(newJobs[k]) = NewJobKey(job)}
        Keep(job) == NewJobKey(job) \notin existingSet /\ Cardinality(Twins(job)) = 1
    IN  SelectSeq(newJobs, Keep)

filterDuplicateJobs(newJobs, existingJobs) ==
    LET existingSet == {JobKey(existingJobs[k]) : k \in 1..Len(existingJobs)}
        Keep(job) == NewJobKey(job) \notin existingSet
    IN  SelectSeq(newJobs, Keep)

\* an onboarding filter that lets every announcement through
filterDuplicates_KeepsAll(newItems, existingItems) == newItems

\* OnboardingTracker.filterDuplicates
filterDuplicates(newItems, existingItems) ==
    LET existingSet == {HireKey(existingItems[k]) : k \in 1..Len(existingItems)}
        Keep(item) == HireKey(item) \notin existingSet
    IN  SelectSeq(newItems, Keep)

(***************************************************************************)
(* DataEnhancer.                                                            *)
(***************************************************************************)
enhanceLocation(location) ==
    IF location = <<>> \/ trim(location) = <<>>
    THEN sLocationNotSpecified
    ELSE LET cleaned == trim(location)
             lowerLocation == toLowerCase(cleaned)
         IN  CASE lowerLocation = sremote -> sRemoteWork
               [] lowerLocation = swfh -> sWorkFromHome
               [] lowerLocation = shybrid -> sHybridWorkModel
               [] lowerLocation = sonsite -> sOnsiteWork
               [] OTHER -> cleaned

\* the fields of the enhanced hire that reach the Hires sheet
enhanceHireData(hire) == [name |-> hire.name, title |-> hire.title]

\* the fields of the enhanced job that reach the Jobs sheet
enhanceJobData(job) == [title |-> job.title, location |-> enhanceLocation(job.location)]


(***************************************************************************)
(* Entities and records.                                                    *)
(***************************************************************************)
\* lookback of the dedup baseline of hires and jobs, in days
HistoryWindowDays == 30
\* lookback of the dedup baseline of onboarding announcements, in days
OnboardingWindowDays == 7

\* companies of the loaded list, at most
MaxCompanies == 2

\* the company sheet the lists are read from: its rows in sheet order
\* (id is the row number), one row per kind of company
CompanySheet ==
    <<[id |-> 2, name |-> "A", priority |-> sTop, trackHiring |-> TRUE, trackJobs |-> TRUE],
      [id |-> 3, name |-> "B", priority |-> sLow, trackHiring |-> FALSE, trackJobs |-> TRUE],
      [id |-> 4, name |-> "C", priority |-> sHigh, trackHiring |-> TRUE, trackJobs |-> FALSE],
      [id |-> 5, name |-> "D", priority |-> sMedium, trackHiring |-> FALSE, trackJobs |-> FALSE]>>

\* the row numbers that identify the companies
CompanyIds == {CompanySheet[k].id : k \in 1..Len(CompanySheet)}

\* the rows of the sheet that are filled in: any of them may be blank
RowChoices == {rows \in SUBSET (1..Len(CompanySheet)) : Cardinality(rows) <= MaxCompanies}

\* the k-th smallest element of a set of row numbers
RECURSIVE NthRow(_, _)
NthRow(rows, k) ==
    LET least == CHOOSE r \in rows : \A q \in rows : r <= q
    IN  IF k = 1 THEN least ELSE NthRow(rows \ {least}, k - 1)

\* the lists GoogleSheetsService.getCompanies may return: the filled rows in
\* sheet order
CompanyLists ==
    {[k \in 1..Cardinality(rows) |-> CompanySheet[NthRow(rows, k)]] : rows \in RowChoices}

\* hires a people search or an announcement page may report
HirePool ==
    {[name |-> sANN, title |-> sDEV],
     [name |-> sBo, title |-> sDev]}

\* postings a careers page may list
JobPool ==
    {[title |-> sENG, location |-> sOSLO],
     [title |-> sEng, location |-> sRemote]}

\* sequences of at most n, and at most MaxBatch, elements of a pool
Batches(pool, n) == UNION {[1..k -> pool] : k \in 0..(IF n < MaxBatch THEN n ELSE MaxBatch)}

\* HiringTracker.removeDuplicates: no two results of one search agree on
\* name and title
removeDuplicates(batch) ==
    \A a, b \in 1..Len(batch) : a # b => batch[a] # batch[b]

\* ages, in days, of the rows the sheets hold at the start
RowAges == {0, 10, 40}

\* the sheets at the start: empty, or one earlier hire, or one earlier job
InitialSheets ==
    {[hires |-> <<>>, jobs |-> <<>>]}
    \cup {[hires |-> <<[company |-> "A", name |-> sAnn, title |-> sDev, age |-> a]>>,
           jobs |-> <<>>] : a \in RowAges}
    \cup {[hires |-> <<>>,
           jobs |-> <<[company |-> "A", title |-> sEng, location |-> sOslo, age |-> 0]>>]}

(***************************************************************************)
(* State.                                                                   *)
(***************************************************************************)
VARIABLES
    companies,     \* CompanyTracker.companies
    isTracking,    \* CompanyTracker.isTracking
    hiresSheet,    \* rows of the Hires sheet
    jobsSheet,     \* rows of the Jobs sheet
    lastChecked,   \* HiringTracker.lastChecked and JobPostingTracker.lastChecked
    inv,           \* the pending invocations of runTrackingCycle
    cycles,        \* cycles admitted so far
    fetched,       \* records returned by the adapters so far
    faults,        \* collaborator failures so far
    probe,         \* the arguments and the result of a call of a duplicate filter
    isRunning,     \* CompanyTracker.isRunning
    reloads,       \* calls of loadCompanies that replaced the list so far
    now,           \* Date.now()
    retry,         \* the pending call of ErrorHandler.withRetry
    circuits,      \* ErrorHandler.circuits
    breaker,       \* the pending calls of ErrorHandler.withCircuitBreaker
    limits,        \* RateLimiter.limits
    queues,        \* RateLimiter.queues
    limiter,       \* the pending calls of RateLimiter and the requests it granted
    hist,          \* the pending invocations of runHistoricalTracking
    starts,        \* the pending calls of CompanyTracker.start
    scheduledJobs, \* CompanyTracker.scheduledJobs
    currentKeyIndex, \* HiringTracker.currentKeyIndex
    search,        \* the pending call of HiringTracker.searchNewHires
    suppressions,  \* AlertService.suppressions
    alertHistory,  \* AlertService.alertHistory
    alerts         \* the pending call of AlertService.sendAlert

\* the state of the tracking cycle
cycleVars == <<companies, isTracking, hiresSheet, jobsSheet, lastChecked, inv, cycles, fetched,
               faults, isRunning, reloads>>

retryVars == <<retry>>
circuitVars == <<circuits, breaker>>
limiterVars == <<limits, queues, limiter>>
histVars == <<hist>>
startVars == <<starts, scheduledJobs>>
keyVars == <<currentKeyIndex, search>>
alertVars == <<suppressions, alertHistory, alerts>>

\* the state a tracking cycle of CompanyTracker never touches
sideVars == <<now, retryVars, circuitVars, limiterVars, histVars, startVars, keyVars, alertVars>>

vars == <<cycleVars, probe, sideVars>>

\* the result object of a cycle
EmptyResults == [newHires |-> <<>>, newJobs |-> <<>>, errors |-> <<>>]

\* no call of a duplicate filter
NoProbe == [kind |-> "none", newItems |-> <<>>, existingItems |-> <<>>, out |-> <<>>,
            applied |-> FALSE]

\* an invocation slot nobody is using
IdleInvocation ==
    [pc |-> "idle", exit |-> "none", sorted |-> <<>>, i |-> 0, stage |-> "none",
     found |-> <<>>, batch |-> <<>>, j |-> 0, results |-> EmptyResults,
     returned |-> "none", windowKeys |-> {}, windowRows |-> {}, atStart |-> <<>>,
     stoppedAt |-> 0,
     visited |-> <<>>, fetches |-> <<>>, appends |-> <<>>, notes |-> <<>>, delays |-> <<>>]

\* program points inside the try block of runTrackingCycle
BodyPcs ==
    {"hireFetch", "hireExisting", "onbFetch", "onbExisting", "jobFetch", "jobExisting",
     "append", "slack", "email", "recordDelay", "companyDelay"}

InBody(p) == inv[p].pc \in BodyPcs

\* no call of withRetry is pending
RetryIdle ==
    [pc |-> "idle", attempt |-> 0, lastError |-> "none", outcome |-> "none",
     calls |-> <<>>, waits |-> <<>>]

\* no call of withCircuitBreaker was made: nothing is pending, no operation has
\* settled and there is no latest call
NoBreakerCalls ==
    [pending |-> <<>>, settled |-> <<>>,
     last |-> [context |-> <<>>, at |-> 0, outcome |-> "none", inARow |-> 0, failedAt |-> 0]]

\* no runHistoricalTracking is pending
HistoricalIdle ==
    [pc |-> "idle", sorted |-> <<>>, i |-> 0, stage |-> "none", batch |-> <<>>, j |-> 0,
     results |-> EmptyResults, runs |-> 0]

\* a call of start that was not made yet
IdleStart == [pc |-> "idle", outcome |-> "none", cycle |-> 0]

\* start was never called; stop has not returned; no job has acted since
NoStarts ==
    [calls |-> [s \in 1..MaxStarts |-> IdleStart], stopped |-> FALSE, afterStop |-> "none"]

\* the HiringTracker built from the two key variables of the environment:
\* the keys that are set are kept, and no search was made yet
IdleSearch(env) ==
    [apiKeys |-> SelectSeq(env, LAMBDA key : key # ""), pc |-> "idle", apiKey |-> "",
     strategy |-> 0, strategies |-> 0, sent |-> <<>>, searches |-> 0]

\* the severities of an alert, and one the tables of AlertService do not list
sCritical == <<"c", "r", "i", "t", "i", "c", "a", "l">>
sWarning == <<"w", "a", "r", "n", "i", "n", "g">>
sInfo == <<"i", "n", "f", "o">>
sDebug == <<"d", "e", "b", "u", "g">>
Severities == {sCritical, sWarning, sInfo, sDebug}

\* the types of an alert
AlertTypes == {<<"a", "p", "i">>, <<"d", "b">>}

\* what the suppression of an alert depends on
AlertKinds == [type : AlertTypes, severity : Severities]

\* a call of sendAlert that was not made yet
IdleAlert ==
    [pc |-> "idle", alert |-> [type |-> <<>>, severity |-> <<>>, message |-> 0],
     shadowed |-> FALSE, requested |-> {}, slack |-> "none", email |-> "none",
     outcome |-> "none"]

\* no alert was raised; lastSent is the time at which an alert of a kind was
\* last sent with success and not cleared since (-1: never)
NoAlerts ==
    [calls |-> [a \in 1..MaxAlerts |-> IdleAlert], lastSent |-> [kind \in AlertKinds |-> -1]]

\* nothing but the tracking cycle is in use
SideInit ==
    /\ now = 0
    /\ retry = RetryIdle
    /\ circuits = <<>>
    /\ breaker = NoBreakerCalls
    /\ limits = <<>>
    /\ queues = <<>>
    /\ limiter = [granted |-> <<>>, waiting |-> <<>>]
    /\ hist = HistoricalIdle
    /\ starts = NoStarts
    /\ scheduledJobs = <<>>
    /\ currentKeyIndex = 0
    /\ search = IdleSearch(<<"key1", "key2">>)
    /\ suppressions = <<>>
    /\ alertHistory = <<>>
    /\ alerts = NoAlerts

Init ==
    /\ companies \in CompanyLists
    /\ isTracking = FALSE
    /\ \E sheets \in InitialSheets :
          /\ hiresSheet = sheets.hires
          /\ jobsSheet = sheets.jobs
    /\ lastChecked = [hire |-> [id \in CompanyIds |-> 0], job |-> [id \in CompanyIds |-> 0]]
    /\ inv = [p \in Procs |-> IdleInvocation]
    /\ cycles = 0
    /\ fetched = 0
    /\ faults = 0
    /\ probe = NoProbe
    /\ isRunning = TRUE
    /\ reloads = 0
    /\ SideInit
    /\ SideInit


(***************************************************************************)
(* The store (GoogleSheetsService).                                         *)
(***************************************************************************)
\* rows of a sheet that belong to the company and are younger than the cutoff
RecentRows(sheet, company, days) ==
    LET Keep(row) == row.company = company.name /\ row.age < days
    IN  SelectSeq(sheet, Keep)

getExistingHires(company, days) ==
    LET rows == RecentRows(hiresSheet, company, days)
    IN  [k \in 1..Len(rows) |-> [name |-> rows[k].name, title |-> rows[k].title]]

getExistingJobs(company, days) ==
    LET rows == RecentRows(jobsSheet, company, days)
    IN  [k \in 1..Len(rows) |-> [title |-> rows[k].title, location |-> rows[k].location]]

\* the identities the sheet holds for the company inside the recent-history
\* window, whatever a read of the sheet returns
HistoryKeys(company, stage) ==
    IF stage = "job"
    THEN {JobKey(j) : j \in Range(getExistingJobs(company, HistoryWindowDays))}
    ELSE {HireKey(h) : h \in Range(getExistingHires(company, HistoryWindowDays))}

\* the rows the sheet holds for the company inside the recent-history window
HistoryRows(company, stage) ==
    IF stage = "job"
    THEN Range(RecentRows(jobsSheet, company, HistoryWindowDays))
    ELSE Range(RecentRows(hiresSheet, company, HistoryWindowDays))

\* the row addHire appends
HireRow(company, hire) ==
    [company |-> company.name, name |-> hire.name, title |-> hire.title, age |-> 0]

\* the row addJob appends
JobRow(company, job) ==
    [company |-> company.name, title |-> job.title, location |-> job.location, age |-> 0]

(***************************************************************************)
(* Control flow of runTrackingCycle between two awaits.                     *)
(***************************************************************************)
\* a guard that tests nothing
AlreadyTracking_Unguarded == FALSE

\* the guard test at the top of runTrackingCycle
AlreadyTracking == isTracking

\* a rejection that is reported as an error of the cycle
RejectedResult_AsError ==
    [newHires |-> <<>>, newJobs |-> <<>>, errors |-> <<[company |-> "", error |-> "busy"]>>]

\* what a rejected trigger gets back
RejectedResult == EmptyResults

\* the companies the cycle iterates over, in iteration order
SortCompanies(cs) ==
    LET Keep(c) == c.trackHiring \/ c.trackJobs
    IN  SelectSeq(cs, Keep)

\* a release that the early return of an empty company list skips
FinallyRelease_NotOnEarlyReturn(exit, current) == IF exit = "empty" THEN current ELSE FALSE

\* the value the finally block leaves in isTracking
FinallyRelease(exit, current) == FALSE

\* the length, in milliseconds, of the delay after a company
CompanyDelayMs(company) == 3000

\* company.priority?.toLowerCase() === 'high'
IsHighPriority(company) == toLowerCase(company.priority) = shigh

\* the company the invocation is working on
CurrentCompany(l) == l.sorted[l.i]

\* a loop that leaves when the tracker was stopped
StartCompany_BreaksWhenStopped(l) ==
    IF l.i > Len(l.sorted) \/ ~isRunning
    THEN [l EXCEPT !.pc = "done", !.exit = "complete", !.returned = "results"]
    ELSE LET company == l.sorted[l.i]
             seen == [l EXCEPT !.visited = Append(@, company.name)]
         IN  IF company.trackHiring THEN [seen EXCEPT !.pc = "hireFetch"]
             ELSE IF company.trackJobs THEN [seen EXCEPT !.pc = "jobFetch"]
             ELSE [seen EXCEPT !.pc = "companyDelay"]

\* a loop that reads this.companies again at every company
StartCompany_ReadsLiveList(l) ==
    LET live == SortCompanies(companies)
    IN  IF l.i > Len(live)
        THEN [l EXCEPT !.sorted = live, !.pc = "done", !.exit = "complete",
                       !.returned = "results"]
        ELSE LET company == live[l.i]
                 seen == [l EXCEPT !.sorted = live, !.visited = Append(@, company.name)]
             IN  IF company.trackHiring THEN [seen EXCEPT !.pc = "hireFetch"]
                 ELSE IF company.trackJobs THEN [seen EXCEPT !.pc = "jobFetch"]
                 ELSE [seen EXCEPT !.pc = "companyDelay"]

\* a loop body that fetches the postings of a company first
StartCompany_PostingsFirst(l) ==
    IF l.i > Len(l.sorted)
    THEN [l EXCEPT !.pc = "done", !.exit = "complete", !.returned = "results"]
    ELSE LET company == l.sorted[l.i]
             seen == [l EXCEPT !.visited = Append(@, company.name)]
         IN  IF company.trackJobs THEN [seen EXCEPT !.pc = "jobFetch"]
             ELSE IF company.trackHiring THEN [seen EXCEPT !.pc = "hireFetch"]
             ELSE [seen EXCEPT !.pc = "companyDelay"]

\* top of the for loop: leave the loop or start the next company
StartCompany(l) ==
    IF l.i > Len(l.sorted)
    THEN [l EXCEPT !.pc = "done", !.exit = "complete", !.returned = "results"]
    ELSE LET company == l.sorted[l.i]
             seen == [l EXCEPT !.visited = Append(@, company.name)]
         IN  IF company.trackHiring THEN [seen EXCEPT !.pc = "hireFetch"]
             ELSE IF company.trackJobs THEN [seen EXCEPT !.pc = "jobFetch"]
             ELSE [seen EXCEPT !.pc = "companyDelay"]

\* what follows the hire stage, the onboarding stage and the job stage
AfterStage(l) ==
    LET company == CurrentCompany(l)
        clear == [l EXCEPT !.batch = <<>>, !.j = 0, !.found = <<>>, !.stage = "none"]
    IN  CASE l.stage = "hire" -> [clear EXCEPT !.pc = "onbFetch"]
          [] l.stage = "onb" ->
                IF company.trackJobs THEN [clear EXCEPT !.pc = "jobFetch"]
                ELSE [clear EXCEPT !.pc = "companyDelay"]
          [] OTHER -> [clear EXCEPT !.pc = "companyDelay"]

\* processNewHires / processNewJobs: the next record of the list, or the end
NextRecord(l) ==
    IF l.j < Len(l.batch)
    THEN [l EXCEPT !.j = @ + 1, !.pc = "append"]
    ELSE AfterStage(l)

\* the catch block of the for loop: the error is recorded under the company
\* and the loop goes on with the next company
CatchCompanyError(l) ==
    StartCompany([l EXCEPT !.results.errors = Append(@, [company |-> CurrentCompany(l).name]),
                           !.batch = <<>>, !.j = 0, !.found = <<>>, !.stage = "none",
                           !.i = @ + 1])

\* a processNewHires / processNewJobs without its try block: the failure of a
\* record reaches the catch block of the for loop
RecordFailed_Propagates(l) == CatchCompanyError(l)

\* a processNewHires / processNewJobs that notifies although the record
\* failed
RecordFailed_StillNotifies(l) == [l EXCEPT !.pc = "slack"]

\* the catch block of processNewHires / processNewJobs
RecordFailed(l) == NextRecord(l)

\* a loop body that does not await processNewHires / processNewJobs: the
\* survivors are pushed to the results and the loop goes on at once
StartBatch_NotAwaited(l, survivors) ==
    LET company == CurrentCompany(l)
        tagged == [k \in 1..Len(survivors) |->
                      IF l.stage = "job"
                      THEN [title |-> survivors[k].title, location |-> survivors[k].location,
                            companyName |-> company.name]
                      ELSE [name |-> survivors[k].name, title |-> survivors[k].title,
                            companyName |-> company.name]]
    IN  AfterStage([l EXCEPT !.results = IF l.stage = "job"
                                         THEN [@ EXCEPT !.newJobs = @ \o tagged]
                                         ELSE [@ EXCEPT !.newHires = @ \o tagged]])

\* the survivors of a stage are pushed to the results and processed
StartBatch(l, survivors) ==
    LET company == CurrentCompany(l)
        tagged == [k \in 1..Len(survivors) |->
                      IF l.stage = "job"
                      THEN [title |-> survivors[k].title, location |-> survivors[k].location,
                            companyName |-> company.name]
                      ELSE [name |-> survivors[k].name, title |-> survivors[k].title,
                            companyName |-> company.name]]
    IN  IF Len(survivors) > 0
        THEN [l EXCEPT !.results = IF l.stage = "job"
                                   THEN [@ EXCEPT !.newJobs = @ \o tagged]
                                   ELSE [@ EXCEPT !.newHires = @ \o tagged],
                       !.batch = survivors, !.j = 1, !.pc = "append"]
        ELSE AfterStage(l)

\* isTracking after a step of an invocation that holds the guard
TrackingAfter(l) == IF l.pc = "done" THEN FinallyRelease(l.exit, isTracking) ELSE isTracking


\* the row processNewHires / processNewJobs store for a record
StoredRow(stage, company, rec) ==
    IF stage = "job"
    THEN JobRow(company, enhanceJobData(rec))
    ELSE HireRow(company, enhanceHireData(rec))

\* the identity of a record of a stage
RecordKey(stage, rec) == IF stage = "job" THEN JobKey(rec) ELSE HireKey(rec)

\* an invocation moves to its next await; the finally block runs if it ends
Step(p, l) ==
    /\ inv' = [inv EXCEPT ![p] = l]
    /\ isTracking' = TrackingAfter(l)

\* The promise of a finished runTrackingCycle is settled: the continuation of
\* its caller is a microtask and runs before any timer or I/O callback.
NoneSettled == \A q \in Procs : inv[q].pc # "done"

\* a collaborator call fails only while failures remain in the budget
Fault(failed) ==
    /\ failed => faults < MaxFaults
    /\ faults' = IF failed THEN faults + 1 ELSE faults

(***************************************************************************)
(* Actions.                                                                 *)
(***************************************************************************)
\* runTrackingCycle is called: the code up to the first await
runTrackingCycleCall(p) ==
    /\ NoneSettled
    /\ inv[p].pc = "idle"
    /\ \A q \in Procs : q < p => inv[q].pc # "idle"
    /\ IF AlreadyTracking
       THEN /\ inv' = [inv EXCEPT ![p] = [IdleInvocation EXCEPT
                           !.pc = "done", !.exit = "rejected",
                           !.returned = "results", !.results = RejectedResult]]
            /\ UNCHANGED <<isTracking, cycles>>
       ELSE /\ cycles < MaxCycles
            /\ cycles' = cycles + 1
            /\ LET entered == [IdleInvocation EXCEPT !.sorted = SortCompanies(companies), !.i = 1,
                                                 !.atStart = companies]
                   l == IF Len(companies) = 0
                        THEN [IdleInvocation EXCEPT
                                 !.pc = "done", !.exit = "empty", !.returned = "results"]
                        ELSE StartCompany(entered)
               IN  /\ inv' = [inv EXCEPT ![p] = l]
                   /\ isTracking' = IF l.pc = "done" THEN FinallyRelease(l.exit, TRUE) ELSE TRUE

\* a trigger (cron tick, manual trigger, initial run) calls runTrackingCycle
Invoke(p) ==
    /\ runTrackingCycleCall(p)
    /\ UNCHANGED sideVars
    /\ UNCHANGED <<isRunning, reloads, probe, companies, hiresSheet, jobsSheet, lastChecked, fetched, faults>>

\* the caller of runTrackingCycle takes the result
Return(p) ==
    /\ inv[p].pc = "done"
    /\ inv' = [inv EXCEPT ![p] = IdleInvocation]
    /\ UNCHANGED sideVars
    /\ UNCHANGED <<isRunning, reloads, probe, companies, isTracking, hiresSheet, jobsSheet, lastChecked, cycles, fetched, faults>>

\* HiringTracker.trackCompany: searchNewHires settles
HireSearchReturn(p) ==
    /\ NoneSettled
    /\ inv[p].pc = "hireFetch"
    /\ LET l == inv[p]
           company == CurrentCompany(l)
       IN  \/ \* the search throws: trackCompany logs and returns []
              /\ Fault(TRUE)
              /\ Step(p, AfterStage([l EXCEPT !.stage = "hire",
                        !.fetches = Append(@, [company |-> company.name, source |-> "hire",
                                               ok |-> FALSE, recs |-> <<>>])]))
              /\ UNCHANGED fetched
           \/ \E recs \in Batches(HirePool, MaxRecords - fetched) :
                 /\ removeDuplicates(recs)
                 /\ Fault(FALSE)
                 /\ fetched' = fetched + Len(recs)
                 /\ Step(p, [l EXCEPT !.stage = "hire", !.found = recs, !.pc = "hireExisting",
                        !.fetches = Append(@, [company |-> company.name, source |-> "hire",
                                               ok |-> TRUE, recs |-> recs])])
    /\ UNCHANGED sideVars
    /\ UNCHANGED <<isRunning, reloads, probe, companies, hiresSheet, jobsSheet, lastChecked, cycles>>

\* HiringTracker.trackCompany: getExistingHires settles, the survivors go
\* back to runTrackingCycle
HireExistingReturn(p) ==
    /\ NoneSettled
    /\ inv[p].pc = "hireExisting"
    /\ \E readOk \in BOOLEAN :
          LET l == inv[p]
              company == CurrentCompany(l)
              existingHires == IF readOk THEN getExistingHires(company, HistoryWindowDays) ELSE <<>>
              filteredHires == filterDuplicateHires(l.found, existingHires)
          IN  /\ Fault(~readOk)
              /\ lastChecked' = [lastChecked EXCEPT !.hire[company.id] = cycles]
              /\ Step(p, StartBatch([l EXCEPT !.windowKeys = HistoryKeys(company, "hire"),
                                            !.windowRows = HistoryRows(company, "hire")],
                                    filteredHires))
    /\ UNCHANGED sideVars
    /\ UNCHANGED <<isRunning, reloads, probe, companies, hiresSheet, jobsSheet, cycles, fetched>>

\* OnboardingTracker.trackNewOnboarding: the three sources settle
OnboardingReturn(p) ==
    /\ NoneSettled
    /\ inv[p].pc = "onbFetch"
    /\ \E recs \in Batches(HirePool, MaxRecords - fetched) :
          LET l == inv[p]
              company == CurrentCompany(l)
          IN  /\ fetched' = fetched + Len(recs)
              /\ Step(p, [l EXCEPT !.stage = "onb", !.found = recs, !.pc = "onbExisting",
                     !.fetches = Append(@, [company |-> company.name, source |-> "onb",
                                            ok |-> TRUE, recs |-> recs])])
    /\ UNCHANGED sideVars
    /\ UNCHANGED <<isRunning, reloads, probe, companies, hiresSheet, jobsSheet, lastChecked, cycles, faults>>

\* OnboardingTracker.trackNewOnboarding: getExistingHires settles
OnboardingExistingReturn(p) ==
    /\ NoneSettled
    /\ inv[p].pc = "onbExisting"
    /\ \E readOk \in BOOLEAN :
          LET l == inv[p]
              company == CurrentCompany(l)
              existingOnboarding ==
                  IF readOk THEN getExistingHires(company, OnboardingWindowDays) ELSE <<>>
              newOnboarding == filterDuplicates(l.found, existingOnboarding)
          IN  /\ Fault(~readOk)
              /\ Step(p, StartBatch([l EXCEPT !.windowKeys = HistoryKeys(company, "onb"),
                                            !.windowRows = HistoryRows(company, "onb")],
                                    newOnboarding))
    /\ UNCHANGED sideVars
    /\ UNCHANGED <<isRunning, reloads, probe, companies, hiresSheet, jobsSheet, lastChecked, cycles, fetched>>

\* JobPostingTracker.trackCompany: the browser and the scrapers settle
JobScrapeReturn(p) ==
    /\ NoneSettled
    /\ inv[p].pc = "jobFetch"
    /\ LET l == inv[p]
           company == CurrentCompany(l)
       IN  \/ \* initializeBrowser throws: trackCompany logs and returns []
              /\ Fault(TRUE)
              /\ Step(p, AfterStage([l EXCEPT !.stage = "job",
                        !.fetches = Append(@, [company |-> company.name, source |-> "job",
                                               ok |-> FALSE, recs |-> <<>>])]))
              /\ UNCHANGED fetched
           \/ \E recs \in Batches(JobPool, MaxRecords - fetched) :
                 /\ Fault(FALSE)
                 /\ fetched' = fetched + Len(recs)
                 /\ Step(p, [l EXCEPT !.stage = "job", !.found = recs, !.pc = "jobExisting",
                        !.fetches = Append(@, [company |-> company.name, source |-> "job",
                                               ok |-> TRUE, recs |-> recs])])
    /\ UNCHANGED sideVars
    /\ UNCHANGED <<isRunning, reloads, probe, companies, hiresSheet, jobsSheet, lastChecked, cycles>>

\* JobPostingTracker.trackCompany: getExistingJobs settles
JobExistingReturn(p) ==
    /\ NoneSettled
    /\ inv[p].pc = "jobExisting"
    /\ \E readOk \in BOOLEAN :
          LET l == inv[p]
              company == CurrentCompany(l)
              existingJobs == IF readOk THEN getExistingJobs(company, HistoryWindowDays) ELSE <<>>
              filteredJobs == filterDuplicateJobs(l.found, existingJobs)
          IN  /\ Fault(~readOk)
              /\ lastChecked' = [lastChecked EXCEPT !.job[company.id] = cycles]
              /\ Step(p, StartBatch([l EXCEPT !.windowKeys = HistoryKeys(company, "job"),
                                            !.windowRows = HistoryRows(company, "job")],
                                    filteredJobs))
    /\ UNCHANGED sideVars
    /\ UNCHANGED <<isRunning, reloads, probe, companies, hiresSheet, jobsSheet, cycles, fetched>>

\* processNewHires / processNewJobs: addHire / addJob settles
AppendReturn(p) ==
    /\ NoneSettled
    /\ inv[p].pc = "append"
    /\ \E ok \in BOOLEAN :
          LET l == inv[p]
              company == CurrentCompany(l)
              rec == l.batch[l.j]
              logged == [l EXCEPT !.appends = Append(@,
                            [company |-> company.name, stage |-> l.stage, rec |-> rec,
                             ok |-> ok, seen |-> RecordKey(l.stage, rec) \in l.windowKeys,
                             again |-> StoredRow(l.stage, company, rec) \in l.windowRows])]
          IN  /\ Fault(~ok)
              /\ IF ok
                 THEN /\ Step(p, [logged EXCEPT !.pc = "slack"])
                      /\ IF l.stage = "job"
                         THEN /\ jobsSheet' = Append(jobsSheet, JobRow(company, enhanceJobData(rec)))
                              /\ UNCHANGED hiresSheet
                         ELSE /\ hiresSheet' = Append(hiresSheet, HireRow(company, enhanceHireData(rec)))
                              /\ UNCHANGED jobsSheet
                 ELSE /\ Step(p, RecordFailed(logged))
                      /\ UNCHANGED <<hiresSheet, jobsSheet>>
    /\ UNCHANGED sideVars
    /\ UNCHANGED <<isRunning, reloads, probe, companies, lastChecked, cycles, fetched>>

\* what a notifier call can do: deliver, log its own failure, or throw
NotifierOutcomes == {"sent", "swallowed", "throw"}

\* slackService.sendHireNotification / sendJobNotification settles
SlackReturn(p) ==
    /\ NoneSettled
    /\ inv[p].pc = "slack"
    /\ \E out \in NotifierOutcomes :
          LET l == inv[p]
              company == CurrentCompany(l)
              logged == [l EXCEPT !.notes = Append(@,
                            [company |-> company.name, stage |-> l.stage, rec |-> l.batch[l.j],
                             channel |-> "slack", out |-> out,
                             seen |-> RecordKey(l.stage, l.batch[l.j]) \in l.windowKeys])]
          IN  /\ Fault(out # "sent")
              /\ IF out = "throw"
                 THEN Step(p, RecordFailed(logged))
                 ELSE IF IsHighPriority(company)
                      THEN Step(p, [logged EXCEPT !.pc = "email"])
                      ELSE Step(p, [logged EXCEPT !.pc = "recordDelay"])
    /\ UNCHANGED sideVars
    /\ UNCHANGED <<isRunning, reloads, probe, companies, hiresSheet, jobsSheet, lastChecked, cycles, fetched>>

\* emailService.sendHireNotification / sendJobNotification settles
EmailReturn(p) ==
    /\ NoneSettled
    /\ inv[p].pc = "email"
    /\ \E out \in NotifierOutcomes :
          LET l == inv[p]
              company == CurrentCompany(l)
              logged == [l EXCEPT !.notes = Append(@,
                            [company |-> company.name, stage |-> l.stage, rec |-> l.batch[l.j],
                             channel |-> "email", out |-> out,
                             seen |-> RecordKey(l.stage, l.batch[l.j]) \in l.windowKeys])]
          IN  /\ Fault(out # "sent")
              /\ IF out = "throw"
                 THEN Step(p, RecordFailed(logged))
                 ELSE Step(p, [logged EXCEPT !.pc = "recordDelay"])
    /\ UNCHANGED sideVars
    /\ UNCHANGED <<isRunning, reloads, probe, companies, hiresSheet, jobsSheet, lastChecked, cycles, fetched>>

\* the 1500 ms delay after a record ends
RecordDelayDone(p) ==
    /\ NoneSettled
    /\ inv[p].pc = "recordDelay"
    /\ Step(p, NextRecord(inv[p]))
    /\ UNCHANGED sideVars
    /\ UNCHANGED <<isRunning, reloads, probe, companies, hiresSheet, jobsSheet, lastChecked, cycles, fetched, faults>>

\* the 3000 ms delay after a company ends
CompanyDelayDone(p) ==
    /\ NoneSettled
    /\ inv[p].pc = "companyDelay"
    /\ LET company == CurrentCompany(inv[p])
       IN  Step(p, StartCompany([inv[p] EXCEPT
                      !.i = @ + 1,
                      !.delays = Append(@, [company |-> company.name,
                                            ms |-> CompanyDelayMs(company)])]))
    /\ UNCHANGED sideVars
    /\ UNCHANGED <<isRunning, reloads, probe, companies, hiresSheet, jobsSheet, lastChecked, cycles, fetched, faults>>

Next ==
    \E p \in Procs :
        \/ Invoke(p)
        \/ Return(p)
        \/ HireSearchReturn(p)
        \/ HireExistingReturn(p)
        \/ OnboardingReturn(p)
        \/ OnboardingExistingReturn(p)
        \/ JobScrapeReturn(p)
        \/ JobExistingReturn(p)
        \/ AppendReturn(p)
        \/ SlackReturn(p)
        \/ EmailReturn(p)
        \/ RecordDelayDone(p)
        \/ CompanyDelayDone(p)

Spec == Init /\ [][Next]_vars


(***************************************************************************)
(* The tracker while it is stopped and while its company list is reloaded.  *)
(***************************************************************************)
\* the tracker was started on empty sheets
LifecycleInit ==
    /\ companies \in CompanyLists
    /\ isTracking = FALSE
    /\ hiresSheet = <<>>
    /\ jobsSheet = <<>>
    /\ lastChecked = [hire |-> [id \in CompanyIds |-> 0], job |-> [id \in CompanyIds |-> 0]]
    /\ inv = [p \in Procs |-> IdleInvocation]
    /\ cycles = 0
    /\ fetched = 0
    /\ faults = 0
    /\ probe = NoProbe
    /\ isRunning = TRUE
    /\ reloads = 0
    /\ SideInit
    /\ SideInit

\* CompanyTracker.stop is called (shutdown, cleanup); a cycle in flight notes
\* how many companies it had visited by then
Stop ==
    /\ NoneSettled
    /\ isRunning
    /\ isRunning' = FALSE
    /\ inv' = [p \in Procs |->
                  IF InBody(p) THEN [inv[p] EXCEPT !.stoppedAt = Len(inv[p].visited)]
                  ELSE inv[p]]
    /\ UNCHANGED <<companies, isTracking, hiresSheet, jobsSheet, lastChecked, cycles,
                   fetched, faults, probe, reloads, sideVars>>

\* CompanyTracker.loadCompanies (reload job, reload endpoint): getCompanies
\* settles and its list replaces this.companies
LoadCompaniesReturn ==
    /\ NoneSettled
    /\ reloads < MaxReloads
    /\ reloads' = reloads + 1
    /\ companies' \in CompanyLists
    /\ UNCHANGED <<isTracking, hiresSheet, jobsSheet, lastChecked, inv, cycles,
                   fetched, faults, probe, isRunning, sideVars>>

StopNext == Next \/ Stop

StopSpec == LifecycleInit /\ [][StopNext]_vars

\* the tracker was started on a sheet of two companies
ReloadInit ==
    /\ LifecycleInit
    /\ companies = <<CompanySheet[2], CompanySheet[3]>>

ReloadNext == Next \/ LoadCompaniesReturn

ReloadSpec == ReloadInit /\ [][ReloadNext]_vars

(***************************************************************************)
(* The duplicate filters on their own: any two lists of records go in.      *)
(***************************************************************************)
\* the records handed to a duplicate filter: those the adapters report and
\* the spelling the sheet holds
ProbeHires == HirePool \cup {[name |-> sAnn, title |-> sDev]}

ProbeJobs == JobPool \cup {[title |-> sEng, location |-> sOslo]}

\* lists of at most MaxProbeLen elements of a pool
ProbeLists(pool) == UNION {[1..k -> pool] : k \in 0..MaxProbeLen}

FilterInit ==
    /\ companies = <<>>
    /\ isTracking = FALSE
    /\ hiresSheet = <<>>
    /\ jobsSheet = <<>>
    /\ lastChecked = [hire |-> [id \in CompanyIds |-> 0], job |-> [id \in CompanyIds |-> 0]]
    /\ inv = [p \in Procs |-> IdleInvocation]
    /\ cycles = 0
    /\ fetched = 0
    /\ faults = 0
    /\ isRunning = TRUE
    /\ reloads = 0
    /\ SideInit
    /\ \E kind \in {"hires", "jobs"} :
          \E newItems, existingItems \in ProbeLists(IF kind = "hires" THEN ProbeHires ELSE ProbeJobs) :
              probe = [kind |-> kind, newItems |-> newItems, existingItems |-> existingItems,
                       out |-> <<>>, applied |-> FALSE]

\* HiringTracker.filterDuplicateHires is called
FilterHires ==
    /\ probe.kind = "hires"
    /\ ~probe.applied
    /\ probe' = [probe EXCEPT !.out = filterDuplicateHires(probe.newItems, probe.existingItems),
                              !.applied = TRUE]
    /\ UNCHANGED <<companies, isTracking, hiresSheet, jobsSheet, lastChecked, inv, cycles,
                   fetched, faults, isRunning, reloads, sideVars>>

\* JobPostingTracker.filterDuplicateJobs is called
FilterJobs ==
    /\ probe.kind = "jobs"
    /\ ~probe.applied
    /\ probe' = [probe EXCEPT !.out = filterDuplicateJobs(probe.newItems, probe.existingItems),
                              !.applied = TRUE]
    /\ UNCHANGED <<companies, isTracking, hiresSheet, jobsSheet, lastChecked, inv, cycles,
                   fetched, faults, isRunning, reloads, sideVars>>

FilterNext == FilterHires \/ FilterJobs

FilterSpec == FilterInit /\ [][FilterNext]_vars

(***************************************************************************)
(* ErrorHandler.withRetry.                                                  *)
(***************************************************************************)
\* ErrorHandler.retryAttempts
retryAttempts == 3
\* ErrorHandler.retryDelay, in milliseconds
retryDelay == 1000

\* what a call of the operation settles with
OperationValues == {[kind |-> "value", id |-> v] : v \in 1..2}
OperationErrors == {[kind |-> "error", id |-> e] : e \in 1..MaxErrors}

\* the quiet tracker next to which the utilities are exercised
QuietInit ==
    /\ companies = <<>>
    /\ isTracking = FALSE
    /\ hiresSheet = <<>>
    /\ jobsSheet = <<>>
    /\ lastChecked = [hire |-> [id \in CompanyIds |-> 0], job |-> [id \in CompanyIds |-> 0]]
    /\ inv = [p \in Procs |-> IdleInvocation]
    /\ cycles = 0
    /\ fetched = 0
    /\ faults = 0
    /\ probe = NoProbe
    /\ isRunning = FALSE
    /\ reloads = 0
    /\ SideInit

\* the catch block of an attempt waits after every attempt, the last included
CatchAttempt_AlwaysWaits(l, error) ==
    [l EXCEPT !.lastError = error, !.calls = Append(@, error),
              !.pc = "delay", !.waits = Append(@, retryDelay * l.attempt)]

\* the catch block of an attempt: keep the error and wait unless it was the
\* last attempt, after which the loop ends and the error is rethrown
CatchAttempt(l, error) ==
    LET caught == [l EXCEPT !.lastError = error, !.calls = Append(@, error)]
    IN  IF l.attempt < retryAttempts
        THEN [caught EXCEPT !.pc = "delay", !.waits = Append(@, retryDelay * l.attempt)]
        ELSE [caught EXCEPT !.pc = "done", !.outcome = [kind |-> "thrown", id |-> error.id]]

\* the loop header after attempt++
NextAttempt(l) ==
    IF l.attempt + 1 <= retryAttempts
    THEN [l EXCEPT !.attempt = @ + 1, !.pc = "operation"]
    ELSE [l EXCEPT !.attempt = @ + 1, !.pc = "done",
                   !.outcome = [kind |-> "thrown", id |-> l.lastError.id]]

\* withRetry is called and calls the operation for the first time
RetryInvoke ==
    /\ retry.pc = "idle"
    /\ retry' = [retry EXCEPT !.pc = "operation", !.attempt = 1]
    /\ UNCHANGED <<cycleVars, probe, now, circuitVars, limiterVars, histVars, startVars,
                   keyVars, alertVars>>

\* the operation fulfils: withRetry returns its value
OperationFulfils ==
    /\ retry.pc = "operation"
    /\ \E value \in OperationValues :
          retry' = [retry EXCEPT !.pc = "done", !.calls = Append(@, value),
                                 !.outcome = [kind |-> "returned", id |-> value.id]]
    /\ UNCHANGED <<cycleVars, probe, now, circuitVars, limiterVars, histVars, startVars,
                   keyVars, alertVars>>

\* the operation rejects: the catch block runs
OperationRejects ==
    /\ retry.pc = "operation"
    /\ \E error \in OperationErrors : retry' = CatchAttempt(retry, error)
    /\ UNCHANGED <<cycleVars, probe, now, circuitVars, limiterVars, histVars, startVars,
                   keyVars, alertVars>>

\* the timer of delay fires: the next attempt begins
RetryDelayDone ==
    /\ retry.pc = "delay"
    /\ retry' = NextAttempt(retry)
    /\ UNCHANGED <<cycleVars, probe, now, circuitVars, limiterVars, histVars, startVars,
                   keyVars, alertVars>>

RetryNext == RetryInvoke \/ OperationFulfils \/ OperationRejects \/ RetryDelayDone

\* the operation settles and the timers fire
RetrySpec ==
    /\ QuietInit
    /\ [][RetryNext]_vars
    /\ WF_vars(OperationFulfils \/ OperationRejects)
    /\ WF_vars(RetryDelayDone)

(***************************************************************************)
(* ErrorHandler.withCircuitBreaker.                                         *)
(***************************************************************************)
\* consecutive failures that open a circuit
failureThreshold == 5
\* how long an open circuit rejects calls, in milliseconds
openMs == 60000
\* the clock advances in steps of this many milliseconds
ClockStep == 30000

\* validator.escape on one character
escapeChar(c) ==
    CASE c = "&" -> <<"&", "a", "m", "p", ";">>
      [] c = "<" -> <<"&", "l", "t", ";">>
      [] c = ">" -> <<"&", "g", "t", ";">>
      [] OTHER -> <<c>>

RECURSIVE escape(_)
escape(s) == IF s = <<>> THEN <<>> ELSE escapeChar(Head(s)) \o escape(Tail(s))

\* SecurityMiddleware.sanitizeInput on a string
sanitizeInput(input) == escape(input)

\* the contexts the callers pass
Contexts == {<<"<">>, <<"&", "l", "t", ";">>}

\* key of the circuit of a context
CircuitKey(context) == <<"c", "i", "r", "c", "u", "i", "t", "_">> \o sanitizeInput(context)

ClosedCircuit == [failures |-> 0, isOpen |-> FALSE, lastFailure |-> 0]

getCircuitState(key) == IF key \in DOMAIN circuits THEN circuits[key] ELSE ClosedCircuit

\* the map after circuits.set(key, state)
CircuitsSet(key, state) ==
    [k \in DOMAIN circuits \cup {key} |-> IF k = key THEN state ELSE circuits[k]]

\* a failure is counted but never opens the circuit
recordFailure_NeverOpens(key) ==
    LET state == getCircuitState(key)
    IN  CircuitsSet(key, [failures |-> state.failures + 1, isOpen |-> FALSE,
                          lastFailure |-> now])

recordFailure(key) ==
    LET state == getCircuitState(key)
    IN  CircuitsSet(key, [failures |-> state.failures + 1,
                          isOpen |-> state.failures + 1 >= failureThreshold,
                          lastFailure |-> now])

resetCircuit(key) == CircuitsSet(key, ClosedCircuit)

\* what is known of the operations of a context that settled: how many failed
\* in a row up to now, when the last one failed, whether the last one succeeded
NothingSettled == [inARow |-> 0, failedAt |-> 0, ok |-> FALSE]

SettledOf(context) ==
    IF context \in DOMAIN breaker.settled THEN breaker.settled[context] ELSE NothingSettled

PendingOf(context) ==
    IF context \in DOMAIN breaker.pending THEN breaker.pending[context] ELSE 0

\* a map with one more entry
MapSet(map, key, value) ==
    [k \in DOMAIN map \cup {key} |-> IF k = key THEN value ELSE map[k]]

RECURSIVE SumOver(_, _)
SumOver(map, keys) ==
    IF keys = {} THEN 0
    ELSE LET k == CHOOSE x \in keys : TRUE
         IN  map[k] + SumOver(map, keys \ {k})

\* withCircuitBreaker is called: it throws at once when the circuit of the
\* context is open and its last failure is recent, and calls the operation
\* otherwise
BreakerInvoke ==
    /\ SumOver(breaker.pending, DOMAIN breaker.pending) < MaxPending
    /\ \E context \in Contexts :
          LET state == getCircuitState(CircuitKey(context))
              open == state.isOpen /\ now - state.lastFailure < openMs
              call == [context |-> context, at |-> now,
                       outcome |-> IF open THEN "open" ELSE "called",
                       inARow |-> SettledOf(context).inARow,
                       failedAt |-> SettledOf(context).failedAt]
          IN  breaker' = [breaker EXCEPT
                             !.last = call,
                             !.pending = IF open THEN @
                                         ELSE MapSet(@, context, PendingOf(context) + 1)]
    /\ UNCHANGED <<cycleVars, probe, now, retryVars, circuits, limiterVars, histVars,
                   startVars, keyVars, alertVars>>

\* the operation of a pending call fulfils
BreakerFulfils ==
    \E context \in Contexts :
        /\ PendingOf(context) > 0
        /\ circuits' = resetCircuit(CircuitKey(context))
        /\ breaker' = [breaker EXCEPT
                          !.pending = MapSet(@, context, PendingOf(context) - 1),
                          !.settled = MapSet(@, context,
                                             [inARow |-> 0, failedAt |-> 0, ok |-> TRUE])]
        /\ UNCHANGED <<cycleVars, probe, now, retryVars, limiterVars, histVars,
                       startVars, keyVars, alertVars>>

\* the operation of a pending call rejects
BreakerRejects ==
    \E context \in Contexts :
        /\ PendingOf(context) > 0
        /\ getCircuitState(CircuitKey(context)).failures < MaxFailures
        /\ circuits' = recordFailure(CircuitKey(context))
        /\ breaker' = [breaker EXCEPT
                          !.pending = MapSet(@, context, PendingOf(context) - 1),
                          !.settled = MapSet(@, context,
                                             [inARow |-> SettledOf(context).inARow + 1,
                                              failedAt |-> now, ok |-> FALSE])]
        /\ UNCHANGED <<cycleVars, probe, now, retryVars, limiterVars, histVars,
                       startVars, keyVars, alertVars>>

\* time passes
Tick ==
    /\ now < MaxTicks * ClockStep
    /\ now' = now + ClockStep
    /\ UNCHANGED <<cycleVars, probe, retryVars, circuitVars, limiterVars, histVars,
                   startVars, keyVars, alertVars>>

CircuitNext == BreakerInvoke \/ BreakerFulfils \/ BreakerRejects \/ Tick

CircuitSpec == QuietInit /\ [][CircuitNext]_vars

(***************************************************************************)
(* RateLimiter.                                                             *)
(***************************************************************************)
sColon == <<":">>
sDefault == <<"d", "e", "f", "a", "u", "l", "t">>
\* names of services
sPdl == <<"p", "d", "l">>
sPdlSearch == <<"p", "d", "l", ":", "v", "5">>

Services == {sPdl, sPdlSearch}
Identifiers == {sDefault}

\* RateLimiter.defaultConfig
defaultConfig == [requests |-> 10, window |-> 60000, delay |-> 1000]

\* the configurations the application hands to configure
ServiceConfigs ==
    {[requests |-> 1, window |-> 120000, delay |-> 1000],
     [requests |-> 2, window |-> 30000, delay |-> 1000]}

\* `${service}:${identifier}`
QueueKey(service, identifier) == service \o sColon \o identifier

\* key.split(':')[0]
RECURSIVE SplitHead(_)
SplitHead(key) ==
    IF key = <<>> \/ Head(key) = ":" THEN <<>>
    ELSE <<Head(key)>> \o SplitHead(Tail(key))

\* this.limits.get(service) || this.defaultConfig
ConfigOf(service) == IF service \in DOMAIN limits THEN limits[service] ELSE defaultConfig

\* while (queue.length > 0 && now - queue[0] > window) queue.shift()
RECURSIVE DropOld(_, _)
DropOld(queue, window) ==
    IF queue # <<>> /\ now - Head(queue) > window
    THEN DropOld(Tail(queue), window)
    ELSE queue

\* the queue of a key, empty when the key is new
QueueOf(key) == IF key \in DOMAIN queues THEN queues[key] ELSE <<>>

\* RateLimiter.isAllowed: the queue of the key without its old requests, and
\* whether the request is granted
isAllowed(service, identifier) ==
    LET config == ConfigOf(service)
        queue == DropOld(QueueOf(QueueKey(service, identifier)), config.window)
        allowed == Len(queue) < config.requests
    IN  [allowed |-> allowed, queue |-> IF allowed THEN Append(queue, now) ELSE queue]

\* the limiter after a call of isAllowed
AfterIsAllowed(service, identifier) ==
    LET r == isAllowed(service, identifier)
        key == QueueKey(service, identifier)
    IN  /\ queues' = MapSet(queues, key, r.queue)
        /\ limiter' = [limiter EXCEPT
                          !.granted = IF r.allowed THEN Append(@, [key |-> key, at |-> now])
                                      ELSE @]

\* RateLimiter.configure, at the set-up of the application
Configure ==
    /\ limiter.granted = <<>>
    /\ limiter.waiting = <<>>
    /\ \E service \in Services \ DOMAIN limits, config \in ServiceConfigs :
          /\ limits' = MapSet(limits, service, config)
          /\ queues' = MapSet(queues, service, <<>>)
    /\ UNCHANGED <<cycleVars, probe, now, retryVars, circuitVars, limiter, histVars,
                   startVars, keyVars, alertVars>>

\* RateLimiter.isAllowed is called
IsAllowedCall ==
    /\ Len(limiter.granted) < MaxGrants
    /\ \E service \in Services, identifier \in Identifiers :
          AfterIsAllowed(service, identifier)
    /\ UNCHANGED <<cycleVars, probe, now, retryVars, circuitVars, limits, histVars,
                   startVars, keyVars, alertVars>>

\* RateLimiter.waitForSlot or RateLimiter.execute is called: the first
\* isAllowed of its loop
WaitForSlotCall ==
    /\ Len(limiter.granted) < MaxGrants
    /\ Len(limiter.waiting) < MaxWaiting
    /\ \E service \in Services, identifier \in Identifiers, method \in {"waitForSlot", "execute"} :
          LET r == isAllowed(service, identifier)
              key == QueueKey(service, identifier)
              call == [service |-> service, identifier |-> identifier, method |-> method,
                       pc |-> "delay"]
          IN  /\ queues' = MapSet(queues, key, r.queue)
              /\ limiter' = [limiter EXCEPT
                                !.granted = IF r.allowed
                                            THEN Append(@, [key |-> key, at |-> now])
                                            ELSE @,
                                !.waiting = IF r.allowed /\ method = "waitForSlot" THEN @
                                            ELSE IF r.allowed
                                            THEN Append(@, [call EXCEPT !.pc = "fn"])
                                            ELSE Append(@, call)]
    /\ UNCHANGED <<cycleVars, probe, now, retryVars, circuitVars, limits, histVars,
                   startVars, keyVars, alertVars>>

\* the sequence without its k-th element
Without(s, k) == SubSeq(s, 1, k - 1) \o SubSeq(s, k + 1, Len(s))

\* the delay of a waiting call is over: the next isAllowed of its loop
WaitDelayDone ==
    /\ Len(limiter.granted) < MaxGrants
    /\ \E w \in 1..Len(limiter.waiting) :
          LET call == limiter.waiting[w]
              r == isAllowed(call.service, call.identifier)
              key == QueueKey(call.service, call.identifier)
          IN  /\ call.pc = "delay"
              /\ queues' = MapSet(queues, key, r.queue)
              /\ limiter' = [limiter EXCEPT
                                !.granted = IF r.allowed
                                            THEN Append(@, [key |-> key, at |-> now])
                                            ELSE @,
                                !.waiting = IF ~r.allowed THEN @
                                            ELSE IF call.method = "waitForSlot"
                                            THEN Without(@, w)
                                            ELSE [@ EXCEPT ![w].pc = "fn"]]
    /\ UNCHANGED <<cycleVars, probe, now, retryVars, circuitVars, limits, histVars,
                   startVars, keyVars, alertVars>>

\* the function of execute settles; execute returns or throws, after its
\* closing delay when the function fulfilled
ExecuteFnSettles ==
    /\ \E w \in 1..Len(limiter.waiting) :
          /\ limiter.waiting[w].pc = "fn"
          /\ limiter' = [limiter EXCEPT !.waiting = Without(@, w)]
    /\ UNCHANGED <<cycleVars, probe, now, retryVars, circuitVars, limits, queues, histVars,
                   startVars, keyVars, alertVars>>

\* RateLimiter.cleanup
Cleanup ==
    /\ queues' = [key \in DOMAIN queues |->
                     DropOld(queues[key], ConfigOf(SplitHead(key)).window)]
    /\ queues' # queues
    /\ UNCHANGED <<cycleVars, probe, now, retryVars, circuitVars, limits, limiter, histVars,
                   startVars, keyVars, alertVars>>

LimiterNext ==
    \/ Configure
    \/ IsAllowedCall
    \/ WaitForSlotCall
    \/ WaitDelayDone
    \/ ExecuteFnSettles
    \/ Cleanup
    \/ Tick

LimiterSpec == QuietInit /\ [][LimiterNext]_vars

(***************************************************************************)
(* CompanyTracker.runHistoricalTracking (POST /api/reset-and-track).        *)
(***************************************************************************)
\* program points inside the try block of runHistoricalTracking
HistoricalPcs == {"hireSearch", "jobSearch", "append", "notify", "companyDelay"}

HistoricalInBody == hist.pc \in HistoricalPcs

\* top of the for loop of runHistoricalTracking; when the loop is left the
\* finally block runs and the results go back to the caller
HistoricalStartCompany(h) ==
    IF h.i > Len(h.sorted)
    THEN [HistoricalIdle EXCEPT !.runs = h.runs]
    ELSE LET company == h.sorted[h.i]
         IN  IF company.trackHiring THEN [h EXCEPT !.pc = "hireSearch", !.stage = "hire"]
             ELSE IF company.trackJobs THEN [h EXCEPT !.pc = "jobSearch", !.stage = "job"]
             ELSE [h EXCEPT !.pc = "companyDelay"]

\* what follows the hires and the jobs of a company
HistoricalAfterStage(h) ==
    LET company == h.sorted[h.i]
        clear == [h EXCEPT !.batch = <<>>, !.j = 0]
    IN  IF h.stage = "hire" /\ company.trackJobs
        THEN [clear EXCEPT !.pc = "jobSearch", !.stage = "job"]
        ELSE [clear EXCEPT !.pc = "companyDelay", !.stage = "none"]

\* processNewHires / processNewJobs: the next record of the list, or the end
HistoricalNextRecord(h) ==
    IF h.j < Len(h.batch)
    THEN [h EXCEPT !.j = @ + 1, !.pc = "append"]
    ELSE HistoricalAfterStage(h)

\* isTracking after a step of runHistoricalTracking: its finally block clears
\* the flag when the loop is left
HistoricalStep(h) ==
    /\ hist' = h
    /\ isTracking' = IF h.pc = "idle" THEN FALSE ELSE isTracking

\* runHistoricalTracking is called: the flag is set without being tested
HistoricalInvoke ==
    /\ NoneSettled
    /\ hist.pc = "idle"
    /\ hist.runs < MaxHistorical
    /\ LET h == HistoricalStartCompany([HistoricalIdle EXCEPT
                    !.sorted = SortCompanies(companies), !.i = 1, !.runs = hist.runs + 1])
       IN  /\ hist' = h
           /\ isTracking' = IF h.pc = "idle" THEN FALSE ELSE TRUE
    /\ UNCHANGED <<companies, hiresSheet, jobsSheet, lastChecked, inv, cycles, fetched, faults,
                   isRunning, reloads, probe, now, retryVars, circuitVars, limiterVars,
                   startVars, keyVars, alertVars>>

\* searchHistoricalHires / searchHistoricalJobs settles; a failed search
\* returns no record
HistoricalSearchReturn ==
    /\ NoneSettled
    /\ hist.pc \in {"hireSearch", "jobSearch"}
    /\ \E recs \in Batches(IF hist.stage = "job" THEN JobPool ELSE HirePool,
                           MaxRecords - fetched) :
          /\ fetched' = fetched + Len(recs)
          /\ HistoricalStep(
                IF Len(recs) > 0
                THEN [hist EXCEPT !.results = IF hist.stage = "job"
                                              THEN [@ EXCEPT !.newJobs = @ \o recs]
                                              ELSE [@ EXCEPT !.newHires = @ \o recs],
                                  !.batch = recs, !.j = 1, !.pc = "append"]
                ELSE HistoricalAfterStage(hist))
    /\ UNCHANGED <<companies, hiresSheet, jobsSheet, lastChecked, inv, cycles, faults,
                   isRunning, reloads, probe, now, retryVars, circuitVars, limiterVars,
                   startVars, keyVars, alertVars>>

\* processNewHires / processNewJobs: addHire / addJob settles
HistoricalAppendReturn ==
    /\ NoneSettled
    /\ hist.pc = "append"
    /\ \E ok \in BOOLEAN :
          LET company == hist.sorted[hist.i]
              row == StoredRow(hist.stage, company, hist.batch[hist.j])
          IN  /\ Fault(~ok)
              /\ hiresSheet' = IF ok /\ hist.stage = "hire" THEN Append(hiresSheet, row)
                               ELSE hiresSheet
              /\ jobsSheet' = IF ok /\ hist.stage = "job" THEN Append(jobsSheet, row)
                              ELSE jobsSheet
              /\ HistoricalStep(IF ok THEN [hist EXCEPT !.pc = "notify"]
                                ELSE HistoricalNextRecord(hist))
    /\ UNCHANGED <<companies, lastChecked, inv, cycles, fetched, isRunning, reloads, probe,
                   now, retryVars, circuitVars, limiterVars, startVars, keyVars, alertVars>>

\* processNewHires / processNewJobs: the notifications and the delay of a
\* record settle
HistoricalNotifyDone ==
    /\ NoneSettled
    /\ hist.pc = "notify"
    /\ HistoricalStep(HistoricalNextRecord(hist))
    /\ UNCHANGED <<companies, hiresSheet, jobsSheet, lastChecked, inv, cycles, fetched, faults,
                   isRunning, reloads, probe, now, retryVars, circuitVars, limiterVars,
                   startVars, keyVars, alertVars>>

\* the delay after a company of runHistoricalTracking is over
HistoricalDelayDone ==
    /\ NoneSettled
    /\ hist.pc = "companyDelay"
    /\ HistoricalStep(HistoricalStartCompany([hist EXCEPT !.i = @ + 1]))
    /\ UNCHANGED <<companies, hiresSheet, jobsSheet, lastChecked, inv, cycles, fetched, faults,
                   isRunning, reloads, probe, now, retryVars, circuitVars, limiterVars,
                   startVars, keyVars, alertVars>>

HistoricalNext ==
    \/ Next
    \/ HistoricalInvoke
    \/ HistoricalSearchReturn
    \/ HistoricalAppendReturn
    \/ HistoricalNotifyDone
    \/ HistoricalDelayDone

HistoricalSpec == ReloadInit /\ [][HistoricalNext]_vars

(***************************************************************************)
(* CompanyTracker.start, the scheduled jobs and CompanyTracker.stop.        *)
(***************************************************************************)
\* the jobs start registers, in the order of registration
JobKinds == <<"tracking", "reload", "summary", "health">>

\* the list getCompanies returns while the tracker is started and stopped
StartSheet == <<CompanySheet[3]>>

\* how the try block of start can end: the validation of the cron
\* expressions throws, or cron.schedule throws after some jobs were
\* registered, or the four jobs are registered
ScheduleOutcomes ==
    {[valid |-> FALSE, registered |-> 0]}
    \cup {[valid |-> TRUE, registered |-> k] : k \in 0..Len(JobKinds)}

\* the jobs of a kind that are registered
JobsOf(kind) == {j \in 1..Len(scheduledJobs) : scheduledJobs[j] = kind}

\* the cycle some pending start is waiting for
AwaitedByStart(p) ==
    \E s \in 1..MaxStarts : starts.calls[s].pc = "cycle" /\ starts.calls[s].cycle = p

\* start is called: it returns at once when the tracker is running and
\* awaits initialize otherwise
StartCall(s) ==
    /\ NoneSettled
    /\ starts.calls[s].pc = "idle"
    /\ \A q \in 1..(s - 1) : starts.calls[q].pc # "idle"
    /\ starts' = [starts EXCEPT
                     !.stopped = FALSE,
                     !.calls[s] = IF isRunning
                                  THEN [IdleStart EXCEPT !.pc = "done", !.outcome = "already"]
                                  ELSE [IdleStart EXCEPT !.pc = "init"]]
    /\ UNCHANGED <<companies, isTracking, hiresSheet, jobsSheet, lastChecked, inv, cycles,
                   fetched, faults, isRunning, reloads, probe, now, retryVars, circuitVars, limiterVars,
                   histVars, scheduledJobs, keyVars, alertVars>>

\* initialize settles: the companies are loaded and isRunning is raised, or
\* start rejects
InitializeReturn(s) ==
    /\ NoneSettled
    /\ starts.calls[s].pc = "init"
    /\ \E ok \in BOOLEAN :
          /\ Fault(~ok)
          /\ companies' = IF ok THEN StartSheet ELSE companies
          /\ isRunning' = IF ok THEN TRUE ELSE isRunning
          /\ starts' = [starts EXCEPT
                           !.calls[s] = IF ok THEN [@ EXCEPT !.pc = "notify"]
                                        ELSE [@ EXCEPT !.pc = "done", !.outcome = "rejected"]]
    /\ UNCHANGED <<isTracking, hiresSheet, jobsSheet, lastChecked, inv, cycles, fetched,
                   reloads, probe, now, retryVars, circuitVars, limiterVars, histVars,
                   scheduledJobs, keyVars, alertVars>>

\* sendStartupNotification settles (it logs its own failure) and the initial
\* cycle is called
StartupNotificationReturn(s) ==
    /\ starts.calls[s].pc = "notify"
    /\ \E p \in Procs :
          /\ runTrackingCycleCall(p)
          /\ starts' = [starts EXCEPT !.calls[s].pc = "cycle", !.calls[s].cycle = p]
    /\ UNCHANGED <<companies, hiresSheet, jobsSheet, lastChecked, fetched, faults, isRunning,
                   reloads, probe, now, retryVars, circuitVars, limiterVars, histVars,
                   scheduledJobs, keyVars, alertVars>>

\* the initial cycle returns and the try block of start runs: the jobs are
\* registered one by one; when the validation or cron.schedule throws, the
\* catch block lowers isRunning and start rejects
InitialCycleReturn(s) ==
    /\ starts.calls[s].pc = "cycle"
    /\ inv[starts.calls[s].cycle].pc = "done"
    /\ inv' = [inv EXCEPT ![starts.calls[s].cycle] = IdleInvocation]
    /\ \E out \in ScheduleOutcomes :
          LET complete == out.valid /\ out.registered = Len(JobKinds)
          IN  /\ Fault(~complete)
              /\ scheduledJobs' = scheduledJobs \o SubSeq(JobKinds, 1, out.registered)
              /\ isRunning' = IF complete THEN isRunning ELSE FALSE
              /\ starts' = [starts EXCEPT
                               !.calls[s].pc = "done",
                               !.calls[s].outcome = IF complete THEN "started" ELSE "rejected"]
    /\ UNCHANGED <<companies, isTracking, hiresSheet, jobsSheet, lastChecked, cycles, fetched,
                   reloads, probe, now, retryVars, circuitVars, limiterVars, histVars,
                   keyVars, alertVars>>

\* the callback of a tracking job takes the result of its cycle
TickCycleReturn(p) ==
    /\ ~AwaitedByStart(p)
    /\ Return(p)

\* a tracking job fires: its callback calls runTrackingCycle when the tracker
\* is running
TrackingTick ==
    /\ JobsOf("tracking") # {}
    /\ isRunning
    /\ \E p \in Procs : runTrackingCycleCall(p)
    /\ starts' = [starts EXCEPT !.afterStop = IF starts.stopped THEN "tracking" ELSE @]
    /\ UNCHANGED <<companies, hiresSheet, jobsSheet, lastChecked, fetched, faults, isRunning,
                   reloads, probe, now, retryVars, circuitVars, limiterVars, histVars,
                   scheduledJobs, keyVars, alertVars>>

\* a reload, summary or health job fires: its callback acts when the tracker
\* is running; the reload replaces the company list
OtherTick ==
    /\ NoneSettled
    /\ isRunning
    /\ \E kind \in {"reload", "summary", "health"} :
          /\ JobsOf(kind) # {}
          /\ companies' = IF kind = "reload" THEN StartSheet ELSE companies
          /\ starts' = [starts EXCEPT !.afterStop = IF starts.stopped THEN kind ELSE @]
    /\ UNCHANGED <<isTracking, hiresSheet, jobsSheet, lastChecked, inv, cycles, fetched, faults,
                   isRunning, reloads, probe, now, retryVars, circuitVars, limiterVars,
                   histVars, scheduledJobs, keyVars, alertVars>>

\* CompanyTracker.stop: isRunning is lowered, every registered job is
\* destroyed and the list of jobs is emptied
StopTracker ==
    /\ NoneSettled
    /\ isRunning' = FALSE
    /\ scheduledJobs' = <<>>
    /\ starts' = [starts EXCEPT !.stopped = TRUE, !.afterStop = "none"]
    /\ UNCHANGED <<companies, isTracking, hiresSheet, jobsSheet, lastChecked, inv, cycles,
                   fetched, faults, reloads, probe, now, retryVars, circuitVars, limiterVars,
                   histVars, keyVars, alertVars>>

StartNext ==
    \/ \E s \in 1..MaxStarts :
          \/ StartCall(s)
          \/ InitializeReturn(s)
          \/ StartupNotificationReturn(s)
          \/ InitialCycleReturn(s)
    \/ TrackingTick
    \/ OtherTick
    \/ StopTracker
    \/ \E p \in Procs :
          \/ TickCycleReturn(p)
          \/ HireSearchReturn(p)
          \/ HireExistingReturn(p)
          \/ OnboardingReturn(p)
          \/ OnboardingExistingReturn(p)
          \/ AppendReturn(p)
          \/ SlackReturn(p)
          \/ EmailReturn(p)
          \/ RecordDelayDone(p)
          \/ CompanyDelayDone(p)

StartSpec == QuietInit /\ [][StartNext]_vars

(***************************************************************************)
(* HiringTracker.searchNewHires and the rotation of the API keys.           *)
(***************************************************************************)
\* the values of PEOPLE_DATA_LABS_API_KEY_1 and _2 ("" when not set)
KeyEnvs == {<<k1, k2>> : k1 \in {"", "key1"}, k2 \in {"", "key2"}}

\* the answers of the people search: data, rate limited, any other failure
Statuses == {200, 429, 500}

KeyInit ==
    /\ companies = <<>>
    /\ isTracking = FALSE
    /\ hiresSheet = <<>>
    /\ jobsSheet = <<>>
    /\ lastChecked = [hire |-> [id \in CompanyIds |-> 0], job |-> [id \in CompanyIds |-> 0]]
    /\ inv = [p \in Procs |-> IdleInvocation]
    /\ cycles = 0
    /\ fetched = 0
    /\ faults = 0
    /\ probe = NoProbe
    /\ isRunning = FALSE
    /\ reloads = 0
    /\ now = 0
    /\ retry = RetryIdle
    /\ circuits = <<>>
    /\ breaker = NoBreakerCalls
    /\ limits = <<>>
    /\ queues = <<>>
    /\ limiter = [granted |-> <<>>, waiting |-> <<>>]
    /\ hist = HistoricalIdle
    /\ starts = NoStarts
    /\ scheduledJobs = <<>>
    /\ currentKeyIndex = 0
    /\ search \in {IdleSearch(env) : env \in KeyEnvs}
    /\ suppressions = <<>>
    /\ alertHistory = <<>>
    /\ alerts = NoAlerts

\* the index after one step of the rotation
NextKeyIndex(index, keys) == (index + 1) % Len(keys)

\* the next iteration of the loop over the strategies: the next request is
\* issued with the key of this search, or the search returns
NextStrategy(s) ==
    IF s.strategy < s.strategies
    THEN [s EXCEPT !.strategy = @ + 1, !.pc = "request"]
    ELSE [s EXCEPT !.pc = "idle"]

\* searchNewHires is called for a company with or without a domain:
\* getCurrentApiKey throws when no key is configured; otherwise it returns
\* the current key and advances the index, and the first request is issued
SearchNewHires ==
    /\ search.pc = "idle"
    /\ search.searches < MaxSearches
    /\ \E strategies \in 1..2 :
          IF Len(search.apiKeys) = 0
          THEN /\ search' = [search EXCEPT !.searches = @ + 1, !.sent = <<>>]
               /\ UNCHANGED currentKeyIndex
          ELSE /\ search' = [search EXCEPT
                                !.searches = @ + 1,
                                !.sent = <<>>,
                                !.apiKey = search.apiKeys[currentKeyIndex + 1],
                                !.strategy = 1,
                                !.strategies = strategies,
                                !.pc = "request"]
               /\ currentKeyIndex' = NextKeyIndex(currentKeyIndex, search.apiKeys)
    /\ UNCHANGED <<cycleVars, probe, now, retryVars, circuitVars, limiterVars, histVars,
                   startVars, alertVars>>

\* the request of a strategy is answered: after data the search waits one
\* second; after 429 the index is advanced and the search waits three
\* seconds; any other failure is logged and the loop goes on
SearchResponse ==
    /\ search.pc = "request"
    /\ \E status \in Statuses :
          LET logged == [search EXCEPT
                            !.sent = Append(@, [key |-> search.apiKey, status |-> status])]
          IN  /\ search' = CASE status = 200 -> [logged EXCEPT !.pc = "delay"]
                             [] status = 429 -> [logged EXCEPT !.pc = "backoff"]
                             [] OTHER -> NextStrategy(logged)
              /\ currentKeyIndex' = IF status = 429
                                    THEN NextKeyIndex(currentKeyIndex, search.apiKeys)
                                    ELSE currentKeyIndex
    /\ UNCHANGED <<cycleVars, probe, now, retryVars, circuitVars, limiterVars, histVars,
                   startVars, alertVars>>

\* the delay after an answer is over
SearchDelayDone ==
    /\ search.pc \in {"delay", "backoff"}
    /\ search' = NextStrategy(search)
    /\ UNCHANGED <<cycleVars, probe, now, retryVars, circuitVars, limiterVars, histVars,
                   startVars, currentKeyIndex, alertVars>>

KeyNext == SearchNewHires \/ SearchResponse \/ SearchDelayDone

KeySpec == KeyInit /\ [][KeyNext]_vars

(***************************************************************************)
(* AlertService.sendAlert and the suppression of repeated alerts.           *)
(***************************************************************************)
\* the step of the clock between two alerts: a quarter of an hour
AlertClockStep == 15 * 60 * 1000

\* `${alert.type}_${alert.severity}`
AlertKey(alert) == alert.type \o <<"_">> \o alert.severity

\* AlertService.getSuppressionTime
getSuppressionTime(severity) ==
    CASE severity = sCritical -> 15 * 60 * 1000
      [] severity = sWarning -> 30 * 60 * 1000
      [] OTHER -> 60 * 60 * 1000

\* AlertService.getChannelsForSeverity
getChannelsForSeverity(severity) ==
    CASE severity = sCritical -> {"slack", "email"}
      [] severity = sWarning -> {"slack"}
      [] OTHER -> {"log"}

\* the channels sendAlert awaits for a severity
AwaitedChannels(severity) ==
    CASE severity = sCritical -> {"slack", "email"}
      [] severity = sWarning -> {"slack"}
      [] OTHER -> {}

\* a variant of isSuppressed that forgets the rules
isSuppressed_Never(alertKey) == FALSE

\* AlertService.isSuppressed
isSuppressed(alertKey) ==
    IF alertKey \notin DOMAIN suppressions THEN FALSE
    ELSE now < suppressions[alertKey].until

\* AlertService.applySuppression: the rules after the call
applySuppression(alertKey, severity) ==
    MapSet(suppressions, alertKey, [until |-> now + getSuppressionTime(severity)])

\* the kind of an alert
KindOf(alert) == [type |-> alert.type, severity |-> alert.severity]

\* an alert of the kind was sent with success less than its suppression time
\* ago
RecentlySent(alert) ==
    /\ alerts.lastSent[KindOf(alert)] >= 0
    /\ now < alerts.lastSent[KindOf(alert)] + getSuppressionTime(alert.severity)

\* the end of the try block of call a: the alert is recorded and its
\* suppression starts
RecordAlert(a, call) ==
    /\ alertHistory' = Append(alertHistory,
                              [type |-> call.alert.type, severity |-> call.alert.severity,
                               message |-> call.alert.message, sentAt |-> now,
                               channels |-> getChannelsForSeverity(call.alert.severity)])
    /\ suppressions' = applySuppression(AlertKey(call.alert), call.alert.severity)
    /\ alerts' = [alerts EXCEPT
                     !.calls[a] = [call EXCEPT !.pc = "done", !.outcome = "sent"],
                     !.lastSent[KindOf(call.alert)] = now]

\* sendAlert is called: a suppressed alert returns at once; a critical alert
\* goes to Slack and to email, a warning to Slack; any other severity is
\* recorded without being sent
SendAlertCall(a) ==
    /\ alerts.calls[a].pc = "idle"
    /\ \A q \in 1..(a - 1) : alerts.calls[q].pc # "idle"
    /\ \E kind \in AlertKinds :
          LET alert == [type |-> kind.type, severity |-> kind.severity, message |-> a]
              call == [IdleAlert EXCEPT !.alert = alert, !.shadowed = RecentlySent(alert)]
              awaited == AwaitedChannels(alert.severity)
          IN  IF isSuppressed(AlertKey(alert))
              THEN /\ alerts' = [alerts EXCEPT
                                    !.calls[a] = [call EXCEPT !.pc = "done",
                                                              !.outcome = "suppressed"]]
                   /\ UNCHANGED <<suppressions, alertHistory>>
              ELSE IF awaited = {}
                   THEN RecordAlert(a, call)
                   ELSE /\ alerts' = [alerts EXCEPT
                                         !.calls[a] =
                                             [call EXCEPT
                                                 !.pc = "sending",
                                                 !.requested = awaited,
                                                 !.slack = IF "slack" \in awaited
                                                           THEN "pending" ELSE "none",
                                                 !.email = IF "email" \in awaited
                                                           THEN "pending" ELSE "none"]]
                        /\ UNCHANGED <<suppressions, alertHistory>>
    /\ UNCHANGED <<cycleVars, probe, now, retryVars, circuitVars, limiterVars, histVars,
                   startVars, keyVars>>

\* a channel of call a settles: the first rejection ends the call in its
\* catch block; when every awaited channel is fulfilled the alert is recorded
ChannelSettles(a) ==
    /\ alerts.calls[a].pc = "sending"
    /\ \E channel \in {"slack", "email"}, ok \in BOOLEAN :
          LET call == alerts.calls[a]
              settled == [call EXCEPT ![channel] = "ok"]
          IN  /\ call[channel] = "pending"
              /\ IF ~ok
                 THEN /\ alerts' = [alerts EXCEPT
                                       !.calls[a] = [call EXCEPT !.pc = "done",
                                                                 !.outcome = "failed",
                                                                 !.slack = "none",
                                                                 !.email = "none"]]
                      /\ UNCHANGED <<suppressions, alertHistory>>
                 ELSE IF settled.slack = "pending" \/ settled.email = "pending"
                      THEN /\ alerts' = [alerts EXCEPT !.calls[a] = settled]
                           /\ UNCHANGED <<suppressions, alertHistory>>
                      ELSE RecordAlert(a, settled)
    /\ UNCHANGED <<cycleVars, probe, now, retryVars, circuitVars, limiterVars, histVars,
                   startVars, keyVars>>

\* AlertService.clearSuppressions
ClearSuppressions ==
    /\ suppressions # <<>>
    /\ suppressions' = <<>>
    /\ alerts' = [alerts EXCEPT !.lastSent = [kind \in AlertKinds |-> -1]]
    /\ UNCHANGED <<cycleVars, probe, now, retryVars, circuitVars, limiterVars, histVars,
                   startVars, keyVars, alertHistory>>

\* time passes
AlertTick ==
    /\ now < MaxAlertTicks * AlertClockStep
    /\ now' = now + AlertClockStep
    /\ UNCHANGED <<cycleVars, probe, retryVars, circuitVars, limiterVars, histVars,
                   startVars, keyVars, alertVars>>

AlertNext ==
    \/ \E a \in 1..MaxAlerts : SendAlertCall(a) \/ ChannelSettles(a)
    \/ ClearSuppressions
    \/ AlertTick

AlertSpec == QuietInit /\ [][AlertNext]_vars

(***************************************************************************)
(* Properties.                                                              *)
(***************************************************************************)
\* awaits of a fetch adapter
FetchPcs == {"hireFetch", "onbFetch", "jobFetch"}

C2_RejectedReturnsEmpty ==
    \A p \in Procs :
        inv[p].exit = "rejected" =>
            /\ inv[p].pc = "done"
            /\ inv[p].returned = "results"
            /\ inv[p].results = [newHires |-> <<>>, newJobs |-> <<>>, errors |-> <<>>]

\* a rejected trigger holds its result while the running cycle waits for a delay
C2_Witness ==
    \E p, q \in Procs :
        /\ inv[p].pc \in {"recordDelay", "companyDelay"}
        /\ inv[q].exit = "rejected"
        /\ inv[q].returned = "results"

\* C3: the running guard is released on every exit path: when an invocation
\* that acquired the guard has finished, isTracking is false, and isTracking
\* is never true without a cycle body in flight.
C3_GuardReleased ==
    /\ \A p \in Procs : (inv[p].pc = "done" /\ inv[p].exit # "rejected") => ~isTracking
    /\ isTracking => \E p \in Procs : InBody(p)

\* a cycle that was admitted after an earlier one had ended has ended too
C3_Witness ==
    \E p \in Procs :
        /\ inv[p].pc = "done"
        /\ inv[p].exit \in {"empty", "complete"}
        /\ cycles >= 2
        /\ ~isTracking


\* the row of the company sheet with the name
CompanyByName(name) == CHOOSE c \in Range(CompanySheet) : c.name = name

\* the priority tier of a company: 1 High, 2 Medium, 3 Low, 4 unrecognized
PriorityTier(company) ==
    LET tag == toLowerCase(company.priority)
    IN  CASE tag = shigh -> 1
          [] tag = smedium -> 2
          [] tag = slow -> 3
          [] OTHER -> 4

\* the position of the company in the loaded list
LoadIndex(name) == CHOOSE k \in 1..Len(companies) : companies[k].name = name

\* the names of the companies of a list
NamesOf(cs) == [k \in 1..Len(cs) |-> cs[k].name]

\* an admitted cycle that has run to its end
Completed(p) == inv[p].pc = "done" /\ inv[p].exit = "complete"

\* C4: within one cycle the entities are visited in priority order: every
\* High entity before every Medium entity, every Medium before every Low, and
\* entities of one tier in their order in the loaded list.
C4_PriorityOrder ==
    \A p \in Procs :
        \A a, b \in 1..Len(inv[p].visited) :
            LET ca == CompanyByName(inv[p].visited[a])
                cb == CompanyByName(inv[p].visited[b])
            IN  (a < b /\ PriorityTier(ca) <= 3 /\ PriorityTier(cb) <= 3) =>
                    /\ PriorityTier(ca) <= PriorityTier(cb)
                    /\ LoadIndex(ca.name) < LoadIndex(cb.name)

\* C5: the priority ordering never drops an entity: the visited entities are
\* a permutation of the loaded ones, and an entity with an unrecognized
\* priority tag is visited, after every entity of a recognized tier.
C5_NeverDropped ==
    \A p \in Procs :
        /\ Completed(p) =>
              /\ Range(inv[p].visited) = Range(NamesOf(companies))
              /\ Len(inv[p].visited) = Len(companies)
        /\ \A a, b \in 1..Len(inv[p].visited) :
              a < b => ~(/\ PriorityTier(CompanyByName(inv[p].visited[a])) = 4
                         /\ PriorityTier(CompanyByName(inv[p].visited[b])) <= 3)

\* C6: partial failure isolation: when the hire fetch of an entity fails, all
\* entities of the cycle are still visited and the errors of the result hold
\* an entry for that entity.
C6_PartialFailureIsolation ==
    \A p \in Procs :
        Completed(p) =>
            \A k \in 1..Len(inv[p].fetches) :
                (inv[p].fetches[k].source = "hire" /\ ~inv[p].fetches[k].ok) =>
                    /\ inv[p].visited = NamesOf(inv[p].sorted)
                    /\ \E e \in 1..Len(inv[p].results.errors) :
                          inv[p].results.errors[e].company = inv[p].fetches[k].company

\* C7: no duplicate persistence: a fetched record whose identity the sheet
\* already holds for the entity inside the recent-history window (in any
\* letter casing) causes no addHire / addJob call and no notification.
C7_NoDuplicatePersistence ==
    \A p \in Procs :
        /\ \A k \in 1..Len(inv[p].appends) : ~inv[p].appends[k].seen
        /\ \A k \in 1..Len(inv[p].notes) : ~inv[p].notes[k].seen

\* C8: the identities of the duplicate filters: for every list X,
\* dedupe(X, X) = [], dedupe(X, []) = X with the same elements in the same
\* order, and dedupe([], X) = [].
C8_DedupIdentities ==
    probe.applied =>
        /\ probe.existingItems = probe.newItems => probe.out = <<>>
        /\ probe.existingItems = <<>> => probe.out = probe.newItems
        /\ probe.newItems = <<>> => probe.out = <<>>

\* a list of two records, one spelled in capitals, was filtered against itself
C8_Witness ==
    /\ probe.applied
    /\ probe.kind = "hires"
    /\ probe.existingItems = probe.newItems
    /\ Len(probe.newItems) >= 2
    /\ \E k \in 1..Len(probe.newItems) : probe.newItems[k].name = sANN
    /\ probe.out = <<>>

\* the addHire calls of a cycle, as the entries of the result they belong to
AppendedHires(p) ==
    LET IsHire(a) == a.stage # "job"
        calls == SelectSeq(inv[p].appends, IsHire)
    IN  [k \in 1..Len(calls) |->
            [name |-> calls[k].rec.name, title |-> calls[k].rec.title,
             companyName |-> calls[k].company]]

\* the addJob calls of a cycle, as the entries of the result they belong to
AppendedJobs(p) ==
    LET IsJob(a) == a.stage = "job"
        calls == SelectSeq(inv[p].appends, IsJob)
    IN  [k \in 1..Len(calls) |->
            [title |-> calls[k].rec.title, location |-> calls[k].rec.location,
             companyName |-> calls[k].company]]

\* C9: store and notifier failures are isolated per record: they never leave
\* runTrackingCycle, never add an entry to the errors of the result, and when
\* the cycle ends every company was visited and every surviving record got its
\* one addHire / addJob call (none skipped, none retried).
C9_StoreNotifierIsolation ==
    \A p \in Procs :
        /\ inv[p].returned # "threw"
        /\ inv[p].results.errors = <<>>
        /\ Completed(p) =>
              /\ inv[p].visited = NamesOf(inv[p].sorted)
              /\ AppendedHires(p) = inv[p].results.newHires
              /\ AppendedJobs(p) = inv[p].results.newJobs

\* a cycle ended after the store failed for a record that was not the last
\* one, or after a notifier threw
C9_Witness ==
    \E p \in Procs :
        /\ Completed(p)
        /\ \/ \E k \in 1..Len(inv[p].appends) : ~inv[p].appends[k].ok /\ k < Len(inv[p].appends)
           \/ \E k \in 1..Len(inv[p].notes) :
                 inv[p].notes[k].out = "throw" /\ Len(inv[p].appends) >= 2

\* the records the adapters returned in a cycle, in the order of the calls
RECURSIVE FetchedRecords(_)
FetchedRecords(fetches) ==
    IF fetches = <<>> THEN <<>>
    ELSE LET f == Head(fetches)
         IN  [k \in 1..Len(f.recs) |->
                 [company |-> f.company, stage |-> f.source, rec |-> f.recs[k]]]
             \o FetchedRecords(Tail(fetches))

\* the addHire / addJob calls of a cycle, in the order of the calls
AppendCalls(p) ==
    [k \in 1..Len(inv[p].appends) |->
        [company |-> inv[p].appends[k].company, stage |-> inv[p].appends[k].stage,
         rec |-> inv[p].appends[k].rec]]

\* a cycle ended without any failure and every row of the sheets is its own
NoFailureNoHistory(p) ==
    /\ Completed(p)
    /\ faults = 0
    /\ Len(hiresSheet) = Len(AppendedHires(p))
    /\ Len(jobsSheet) = Len(AppendedJobs(p))

\* the hires among fetched records, as entries of the result
HireEntries(recs) ==
    LET IsHire(r) == r.stage # "job"
        hs == SelectSeq(recs, IsHire)
    IN  [k \in 1..Len(hs) |->
            [name |-> hs[k].rec.name, title |-> hs[k].rec.title, companyName |-> hs[k].company]]

\* C10 as stated: in a cycle without failures on a store without history the
\* store append is called exactly once for each record an adapter returned,
\* the new hires of the result are exactly those records and errors is empty.
C10_OncePerFetchedRecord ==
    \A p \in Procs :
        NoFailureNoHistory(p) =>
            /\ AppendCalls(p) = FetchedRecords(inv[p].fetches)
            /\ inv[p].results.newHires = HireEntries(FetchedRecords(inv[p].fetches))
            /\ inv[p].results.errors = <<>>

\* an announcement repeats a hire that the people search returned for the same
\* company earlier in the cycle
RepeatsFetchedHire(fetches, k, rec) ==
    /\ fetches[k].source = "onb"
    /\ \E e \in 1..(k - 1) :
          /\ fetches[e].source = "hire"
          /\ fetches[e].company = fetches[k].company
          /\ \E h \in Range(fetches[e].recs) : HireKey(h) = HireKey(rec)

\* the fetched records without the announcements that repeat a fetched hire
RECURSIVE FreshRecords(_, _)
FreshRecords(fetches, k) ==
    IF k > Len(fetches) THEN <<>>
    ELSE LET f == fetches[k]
             Fresh(r) == ~RepeatsFetchedHire(fetches, k, r)
             kept == SelectSeq(f.recs, Fresh)
         IN  [n \in 1..Len(kept) |->
                 [company |-> f.company, stage |-> f.source, rec |-> kept[n]]]
             \o FreshRecords(fetches, k + 1)

\* C10 (amended): in such a cycle the store append is called exactly once for
\* each record an adapter returned, except an announcement that repeats a hire
\* persisted for the company earlier in the cycle, which is neither appended
\* nor reported; the new hires of the result are exactly the appended hires.
C10_OncePerFreshRecord ==
    \A p \in Procs :
        NoFailureNoHistory(p) =>
            /\ AppendCalls(p) = FreshRecords(inv[p].fetches, 1)
            /\ inv[p].results.newHires = HireEntries(FreshRecords(inv[p].fetches, 1))
            /\ inv[p].results.errors = <<>>

\* one company got a hire appended, another company's adapters returned nothing
C10_Witness ==
    \E p \in Procs :
        /\ NoFailureNoHistory(p)
        /\ Len(inv[p].visited) >= 2
        /\ Len(inv[p].appends) >= 1
        /\ \E k \in 1..Len(inv[p].fetches) :
              /\ inv[p].fetches[k].recs = <<>>
              /\ \A a \in 1..Len(inv[p].appends) :
                    inv[p].appends[a].company # inv[p].fetches[k].company


\* the lower-cased key of a record of a kind: name-title of a hire,
\* title-location of a job
KeyOfKind(kind, rec) ==
    IF kind = "jobs"
    THEN toLowerCase(rec.title \o sDash \o rec.location)
    ELSE toLowerCase(rec.name \o sDash \o rec.title)

\* the records of newItems, in their order, whose key no record of
\* existingItems has
ExpectedSurvivors(kind, newItems, existingItems) ==
    LET absent == {k \in 1..Len(newItems) :
                      \A e \in 1..Len(existingItems) :
                          KeyOfKind(kind, existingItems[e]) # KeyOfKind(kind, newItems[k])}
    IN  [n \in 1..Cardinality(absent) |-> newItems[NthRow(absent, n)]]

\* C11: filterDuplicateJobs / filterDuplicateHires return exactly the
\* subsequence of the new records, in source order, whose lower-cased key is
\* the key of no existing record; new records that share a key absent from the
\* existing ones all survive; the call changes neither input list.
C11_FilterIsSubsequence ==
    [][(~probe.applied /\ probe'.applied) =>
          /\ probe'.newItems = probe.newItems
          /\ probe'.existingItems = probe.existingItems
          /\ probe'.out = ExpectedSurvivors(probe.kind, probe.newItems, probe.existingItems)]_vars

\* two new jobs that differ in casing only both survived, a third one was
\* filtered out
C11_Witness ==
    /\ probe.applied
    /\ probe.kind = "jobs"
    /\ Len(probe.newItems) = 3
    /\ Len(probe.out) = 2
    /\ probe.out[1] # probe.out[2]
    /\ KeyOfKind("jobs", probe.out[1]) = KeyOfKind("jobs", probe.out[2])
    /\ probe.existingItems # <<>>


\* C12: a posting is never persisted twice across cycles: when every
\* collaborator call succeeds, no cycle calls addJob for a posting (same title
\* and location, whatever the location is) that an earlier cycle stored for
\* the company and that is still inside the recent-history window.
C12_NoDoublePersistAcrossCycles ==
    \A p \in Procs :
        faults = 0 =>
            \A k \in 1..Len(inv[p].appends) :
                inv[p].appends[k].stage = "job" => ~inv[p].appends[k].again

\* C13: a hire-adapter error does not abort the entity: for a company with
\* both capabilities, when the hire fetch fails, the errors of the result get
\* an entry for the company and the posting fetch of the company is still
\* performed in the same cycle.
C13_HireErrorRecorded ==
    \A p \in Procs :
        Completed(p) =>
            \A k \in 1..Len(inv[p].fetches) :
                LET f == inv[p].fetches[k]
                IN  (f.source = "hire" /\ ~f.ok /\ CompanyByName(f.company).trackJobs) =>
                        /\ \E e \in 1..Len(inv[p].results.errors) :
                              inv[p].results.errors[e].company = f.company
                        /\ \E m \in (k + 1)..Len(inv[p].fetches) :
                              /\ inv[p].fetches[m].source = "job"
                              /\ inv[p].fetches[m].company = f.company

\* awaits inside processNewHires / processNewJobs
RecordPcs == {"append", "slack", "email", "recordDelay"}

\* s is an initial part of t
IsPrefix(s, t) == Len(s) <= Len(t) /\ \A k \in 1..Len(s) : s[k] = t[k]

\* the positions of the companies of a log in the visit order
VisitIndex(p, name) == CHOOSE k \in 1..Len(inv[p].visited) : inv[p].visited[k] = name

\* the addHire / addJob calls of a cycle that succeeded
OkAppends(p) ==
    LET IsOk(a) == a.ok
    IN  SelectSeq(inv[p].appends, IsOk)

\* the notifier calls of a cycle on a channel
NotesOn(p, channel) ==
    LET OnChannel(n) == n.channel = channel
    IN  SelectSeq(inv[p].notes, OnChannel)

\* the entries of a log follow the visit order of the cycle
FollowsVisits(p, log) ==
    /\ \A k \in 1..Len(log) : log[k].company \in Range(inv[p].visited)
    /\ \A a, b \in 1..Len(log) :
          a < b => VisitIndex(p, log[a].company) <= VisitIndex(p, log[b].company)

\* every survivor pushed to the results had its addHire / addJob call and
\* every stored record its Slack call
AllHandled(p) ==
    /\ AppendedHires(p) = inv[p].results.newHires
    /\ AppendedJobs(p) = inv[p].results.newJobs
    /\ Len(NotesOn(p, "slack")) = Len(OkAppends(p))

InJobStage(p) ==
    \/ inv[p].pc \in {"jobFetch", "jobExisting"}
    \/ inv[p].pc \in RecordPcs /\ inv[p].stage = "job"

\* C15: for a company with both capabilities hires are processed before
\* postings: no hire or onboarding fetch of a company follows its posting
\* fetch, and while the cycle is in the posting stage of the company the hire
\* fetch has been made and every surviving hire was stored and notified.
C15_HiresBeforePostings ==
    \A p \in Procs :
        /\ \A a, b \in 1..Len(inv[p].fetches) :
              (a < b /\ inv[p].fetches[a].company = inv[p].fetches[b].company) =>
                  ~(inv[p].fetches[a].source = "job" /\ inv[p].fetches[b].source # "job")
        /\ (InJobStage(p) /\ CurrentCompany(inv[p]).trackHiring) =>
              /\ \E k \in 1..Len(inv[p].fetches) :
                    /\ inv[p].fetches[k].source = "hire"
                    /\ inv[p].fetches[k].company = CurrentCompany(inv[p]).name
              /\ AppendedHires(p) = inv[p].results.newHires
              /\ \A k \in 1..Len(inv[p].appends) :
                    (inv[p].appends[k].ok /\ inv[p].appends[k].stage # "job") =>
                        \E n \in 1..Len(inv[p].notes) :
                            /\ inv[p].notes[n].channel = "slack"
                            /\ inv[p].notes[n].rec = inv[p].appends[k].rec

\* the posting fetch of a company is in flight after one of its hires was
\* stored
C15_Witness ==
    \E p \in Procs :
        /\ inv[p].pc = "jobFetch"
        /\ CurrentCompany(inv[p]).trackHiring
        /\ \E k \in 1..Len(inv[p].appends) :
              /\ inv[p].appends[k].ok
              /\ inv[p].appends[k].stage = "hire"
              /\ inv[p].appends[k].company = CurrentCompany(inv[p]).name

\* a log entry without its outcome
CallOf(entry) == [company |-> entry.company, stage |-> entry.stage, rec |-> entry.rec]

\* the calls of a log
CallsOf(log) == [k \in 1..Len(log) |-> CallOf(log[k])]

\* C16: for each surviving record addHire / addJob is called before any
\* notifier, the records are handled in the order the filter returned them,
\* and no notifier is called for a record whose addHire / addJob failed: the
\* Slack calls are, in order, the stored records (all but the one whose Slack
\* call is due), every email call follows the Slack call of its record, and
\* the store calls are an initial part of the survivors pushed to the results.
C16_StoreBeforeNotify ==
    \A p \in Procs :
        /\ IsPrefix(CallsOf(NotesOn(p, "slack")), CallsOf(OkAppends(p)))
        /\ Len(NotesOn(p, "slack")) =
              Len(OkAppends(p)) - (IF inv[p].pc = "slack" THEN 1 ELSE 0)
        /\ \A n \in 1..Len(inv[p].notes) :
              inv[p].notes[n].channel = "email" =>
                  /\ n > 1
                  /\ inv[p].notes[n - 1].channel = "slack"
                  /\ inv[p].notes[n - 1].out # "throw"
                  /\ CallOf(inv[p].notes[n - 1]) = CallOf(inv[p].notes[n])
        /\ IsPrefix(AppendedHires(p), inv[p].results.newHires)
        /\ IsPrefix(AppendedJobs(p), inv[p].results.newJobs)

\* addHire failed for one record, the next one was stored and then notified
C16_Witness ==
    \E p \in Procs :
        \E k \in 1..Len(inv[p].appends) :
            /\ ~inv[p].appends[k].ok
            /\ k < Len(inv[p].appends)
            /\ inv[p].appends[k + 1].ok
            /\ Len(NotesOn(p, "slack")) = 1
            /\ CallOf(inv[p].notes[1]) = CallOf(inv[p].appends[k + 1])

\* C17: the delay applied after a company depends on its priority tier: the
\* delay after a High company is strictly shorter than the delay after a Low
\* company, and the delay after a Medium company lies between the two.
C17_DelayByTier ==
    \A p \in Procs :
        \A a, b \in 1..Len(inv[p].delays) :
            LET da == inv[p].delays[a]
                db == inv[p].delays[b]
                ta == PriorityTier(CompanyByName(da.company))
                tb == PriorityTier(CompanyByName(db.company))
            IN  /\ (ta = 1 /\ tb = 3) => da.ms < db.ms
                /\ (ta = 1 /\ tb = 2) => da.ms <= db.ms
                /\ (ta = 2 /\ tb = 3) => da.ms <= db.ms

\* C18: a cycle cannot be cancelled midway: once runTrackingCycle iterates
\* it visits every eligible company, also when stop() is called while it is
\* suspended; it never ends by an exception.
C18_NoCancellation ==
    \A p \in Procs :
        /\ inv[p].returned # "threw"
        /\ IsPrefix(inv[p].visited, NamesOf(SortCompanies(inv[p].atStart)))
        /\ Completed(p) => inv[p].visited = NamesOf(SortCompanies(inv[p].atStart))

\* a cycle ended with two companies visited although stop() was called when
\* it had visited one
C18_Witness ==
    \E p \in Procs :
        /\ Completed(p)
        /\ ~isRunning
        /\ inv[p].stoppedAt = 1
        /\ Len(inv[p].visited) = 2

\* C19: the company list is immutable for the duration of a cycle: a reload
\* that completes while the cycle is in flight changes neither the companies
\* the cycle visits nor their order, which stay those of the list the cycle
\* started with; a cycle that starts afterwards works on the replaced list.
C19_ListFixedDuringCycle ==
    /\ [](\A p \in Procs :
             /\ inv[p].sorted = SortCompanies(inv[p].atStart)
             /\ IsPrefix(inv[p].visited, NamesOf(SortCompanies(inv[p].atStart)))
             /\ Completed(p) => inv[p].visited = NamesOf(SortCompanies(inv[p].atStart)))
    /\ [][\A p \in Procs :
             (inv[p].pc = "idle" /\ inv'[p].pc # "idle" /\ inv'[p].exit # "rejected") =>
                 /\ inv'[p].sorted = SortCompanies(companies)
                 /\ IsPrefix(inv'[p].visited, NamesOf(SortCompanies(companies)))]_vars

\* a cycle that had visited one company when the list was replaced ended
\* with both companies of its own list visited
C19_Witness ==
    \E p \in Procs :
        /\ Completed(p)
        /\ reloads = 1
        /\ inv[p].atStart # companies
        /\ SortCompanies(inv[p].atStart) # SortCompanies(companies)
        /\ Len(inv[p].visited) = 2

\* C20: for every company a cycle visits with a capability enabled, the
\* last-checked mark of the company for that source is set during the cycle,
\* and a mark never decreases.
C20_LastCheckedAdvances ==
    /\ [](\A p \in Procs :
             Completed(p) =>
                 \A k \in 1..Len(inv[p].sorted) :
                     LET company == inv[p].sorted[k]
                     IN  /\ company.trackHiring => lastChecked.hire[company.id] = cycles
                         /\ company.trackJobs => lastChecked.job[company.id] = cycles)
    /\ [][\A id \in CompanyIds :
             /\ lastChecked'.hire[id] >= lastChecked.hire[id]
             /\ lastChecked'.job[id] >= lastChecked.job[id]]_vars

\* the calls of the operation that threw
FailedCalls(l) == {k \in 1..Len(l.calls) : l.calls[k].kind = "error"}

\* what holds of a call of withRetry at every moment
RetryWithinBounds(l) ==
    /\ Len(l.calls) <= retryAttempts
    /\ \A k \in 1..(Len(l.calls) - 1) : k \in FailedCalls(l)
    /\ Len(l.waits) <= retryAttempts - 1
    /\ Len(l.waits) <= Cardinality(FailedCalls(l))
    /\ \A k \in 1..(Len(l.waits) - 1) : l.waits[k] < l.waits[k + 1]
    /\ l.pc = "done" =>
          LET last == l.calls[Len(l.calls)]
          IN  /\ Len(l.calls) >= 1
              /\ Len(l.waits) = Len(l.calls) - 1
              /\ IF last.kind = "value"
                 THEN l.outcome = [kind |-> "returned", id |-> last.id]
                 ELSE /\ Len(l.calls) = retryAttempts
                      /\ l.outcome = [kind |-> "thrown", id |-> last.id]

\* C21: withRetry calls the operation at most retryAttempts (3) times, returns
\* the value of the first attempt that succeeds without calling the operation
\* again, and otherwise ends by rethrowing the error of the last attempt; the
\* waits grow with the attempt number and no wait follows the last attempt.
C21_RetryBounded ==
    /\ [](RetryWithinBounds(retry))
    /\ (retry.pc # "idle") ~> (retry.pc = "done")

\* three attempts threw three different errors and the last one was rethrown
\* after waits of 1000 and 2000 ms
C21_Witness ==
    /\ retry.pc = "done"
    /\ retry.outcome.kind = "thrown"
    /\ Len(retry.calls) = retryAttempts
    /\ retry.calls[1] # retry.calls[retryAttempts]
    /\ retry.waits = <<retryDelay, 2 * retryDelay>>

\* C22: once 5 operations in a row have failed under a context, a call made
\* less than 60 s after the last of these failures is rejected ('Circuit
\* breaker open') without calling the operation; with fewer than 5 failures in
\* a row no call is rejected; and after an operation succeeded the failure
\* count of its circuit is 0 and the circuit is closed.
C22_CircuitBreaker ==
    /\ LET call == breaker.last
       IN  /\ (call.inARow >= failureThreshold /\ call.at - call.failedAt < openMs)
                 => call.outcome = "open"
           /\ call.inARow < failureThreshold => call.outcome # "open"
    /\ \A context \in Contexts :
          SettledOf(context).ok => getCircuitState(CircuitKey(context)) = ClosedCircuit

\* five operations of a context failed in a row and a call made 30 s after the
\* last failure was rejected, while an operation of the other context succeeded
C22_Witness ==
    /\ breaker.last.outcome = "open"
    /\ breaker.last.inARow = failureThreshold
    /\ breaker.last.at > breaker.last.failedAt
    /\ \E context \in Contexts \ {breaker.last.context} : SettledOf(context).ok

\* the requests granted for a key from the k-th grant on, not later than a
\* window after it
GrantedWithin(k, window) ==
    {j \in k..Len(limiter.granted) :
        /\ limiter.granted[j].key = limiter.granted[k].key
        /\ limiter.granted[j].at - limiter.granted[k].at <= window}

C24_GuardCoversBothKinds ==
    ((\E p \in Procs : InBody(p)) \/ HistoricalInBody) => isTracking

\* C25: however two calls of start overlap, the four jobs are registered only
\* once: scheduledJobs never holds more than four entries and there is at most
\* one tracking job, so that a cron tick calls runTrackingCycle at most once.
C25_StartRegistersOnce ==
    /\ Len(scheduledJobs) <= Len(JobKinds)
    /\ Cardinality(JobsOf("tracking")) <= 1

\* C26: after a call of start that rejected, with no other call of start
\* made, isRunning is false and no scheduled job is registered.
C26_FailedStartLeavesStopped ==
    (starts.calls[1].outcome = "rejected" /\ starts.calls[2].pc = "idle")
        => (~isRunning /\ scheduledJobs = <<>>)

\* C27: from the return of stop until start is called again, isRunning is
\* false, scheduledJobs is empty and no job (tracking, reload, summary,
\* health) has started its action.
C27_StoppedUntilStarted ==
    starts.stopped => (~isRunning /\ scheduledJobs = <<>> /\ starts.afterStop = "none")

\* C28: with two keys configured, the request that follows a request answered
\* with 429 in the same search carries another key than the rejected one;
\* and currentKeyIndex is an index of the list of keys.
C28_SwitchesKeyOn429 ==
    /\ Len(search.apiKeys) = 2 =>
          \A i \in 1..(Len(search.sent) - 1) :
              search.sent[i].status = 429 => search.sent[i + 1].key # search.sent[i].key
    /\ Len(search.apiKeys) > 0 => currentKeyIndex \in 0..(Len(search.apiKeys) - 1)

\* the calls of sendAlert that ended with the outcome
AlertsWith(outcome) == {a \in 1..MaxAlerts : alerts.calls[a].outcome = outcome}

\* C29: an alert raised while an alert of its type and severity was sent less
\* than the suppression time ago is sent to no channel and is not recorded;
\* the recorded alerts are those that were sent; every alert sent (and not
\* cleared) has its suppression running, and no other suppression exists, so
\* that a failed send records nothing and suppresses nothing.
C29_Suppression ==
    /\ \A a \in 1..MaxAlerts :
          alerts.calls[a].shadowed =>
              /\ alerts.calls[a].requested = {}
              /\ alerts.calls[a].outcome = "suppressed"
    /\ {alertHistory[i].message : i \in 1..Len(alertHistory)} = AlertsWith("sent")
    /\ Len(alertHistory) = Cardinality(AlertsWith("sent"))
    /\ \A kind \in AlertKinds :
          alerts.lastSent[kind] >= 0 =>
              /\ AlertKey(kind) \in DOMAIN suppressions
              /\ suppressions[AlertKey(kind)].until
                    = alerts.lastSent[kind] + getSuppressionTime(kind.severity)
    /\ \A key \in DOMAIN suppressions :
          \E kind \in AlertKinds : key = AlertKey(kind) /\ alerts.lastSent[kind] >= 0

\* an alert was suppressed, another was sent and a third failed to be sent
C29_Witness ==
    /\ \E a \in 1..MaxAlerts : alerts.calls[a].shadowed /\ alerts.calls[a].outcome = "suppressed"
    /\ AlertsWith("sent") # {}
    /\ \E a \in AlertsWith("failed") :
          \E b \in AlertsWith("sent") : b < a /\ KindOf(alerts.calls[a].alert) = KindOf(alerts.calls[b].alert)

\* the hire fetch and the onboarding tracker both reported, in the cycle of
\* invocation p, a hire with the key for the company
ReportedByBoth(p, company, key) ==
    \A source \in {"hire", "onb"} :
        \E f \in 1..Len(inv[p].fetches) :
            /\ inv[p].fetches[f].company = company
            /\ inv[p].fetches[f].source = source
            /\ \E r \in 1..Len(inv[p].fetches[f].recs) : HireKey(inv[p].fetches[f].recs[r]) = key

\* the addHire calls of the cycle that stored a hire with the key for the company
PersistedHires(p, company, key) ==
    {k \in 1..Len(inv[p].appends) :
        /\ inv[p].appends[k].stage # "job"
        /\ inv[p].appends[k].ok
        /\ inv[p].appends[k].company = company
        /\ HireKey(inv[p].appends[k].rec) = key}

\* the new hires of the result that carry the key for the company
ResultHires(p, company, key) ==
    {k \in 1..Len(inv[p].results.newHires) :
        /\ inv[p].results.newHires[k].companyName = company
        /\ HireKey(inv[p].results.newHires[k]) = key}

\* C30: within one cycle, a hire that the hire fetch and the onboarding
\* tracker both report for a company (same name and title in any casing) is
\* stored by addHire at most once and appears at most once among the new
\* hires of the result.
C30_ReportedTwiceStoredOnce ==
    \A p \in Procs :
        \A company \in Range(NamesOf(companies)) :
            \A hire \in HirePool :
                ReportedByBoth(p, company, HireKey(hire)) =>
                    /\ Cardinality(PersistedHires(p, company, HireKey(hire))) <= 1
                    /\ Cardinality(ResultHires(p, company, HireKey(hire))) <= 1

=============================================================================
